---- MODULE Spec2Model ----
(***************************************************************************)
(* Model of the detect -> group -> explain -> rank pipeline of the         *)
(* automated root-cause-analysis repository.                               *)
(*                                                                         *)
(*   apps/detector/detector/anomaly_detector.py   AnomalyDetector          *)
(*   apps/detector/detector/incident_grouper.py   IncidentGrouper          *)
(*   apps/detector/detector/job.py                DetectorWorker           *)
(*   apps/rca/rca/job.py, ranker.py, ...          RCAWorker                *)
(*                                                                         *)
(* Numbers.  Metric values are integers.  The median of an even number of  *)
(* integers is a half integer and the MAD of such a sample a quarter       *)
(* integer, so the model carries  median2 = 2*median  and  mad4 = 4*MAD,   *)
(* which are integers, and a z-score as the exact fraction num/den.        *)
(* Timestamps are integer seconds.                                         *)
(***************************************************************************)
EXTENDS Integers, Sequences, FiniteSets, TLC

VARIABLES
    \* ---- AnomalyDetector applied to one series (pure function) ----
    d_metric,       \* metric name of the series
    d_base,         \* number of leading points the caller loaded as history
    d_values,       \* values handed to detect_anomalies_in_window
    d_timestamps,   \* timestamps handed to detect_anomalies_in_window
    d_result,       \* the list of segments it returned
    d_called,       \* TRUE once detect_anomalies_in_window has returned
    \* ---- IncidentGrouper.group_anomalies, one loop iteration per step ----
    g_input,        \* the anomalies argument
    g_pc,           \* "start", "loop" or "done"
    g_sorted,       \* sorted_anomalies
    g_idx,          \* position of the for loop in sorted_anomalies
    g_fold,         \* current_incident, incidents and the ids handed out
    g_result,       \* the returned list of incidents
    \* ---- DetectorWorker ----
    metrics_buffer, \* (service, metric) -> list of (ts, value)
    now,            \* the wall clock, datetime.now(timezone.utc)
    anomalies,      \* table anomalies, in insertion order
    incidents,      \* table incidents, in insertion order
    incident_anomalies,  \* table incident_anomalies: (incident_id, anomaly_id)
    anomalies_detected,  \* messages sent to topic anomalies.detected
    rca_requests,   \* messages the detector sent to topic rca.requests
    points_fed,     \* number of messages of metrics.raw consumed so far
    \* ---- RCAWorker, one database statement per step ----
    stored,         \* the stored inputs of a run: incidents with the services
                    \* of their anomalies, change tables, metrics, logs
    rca_clock,      \* NOW() of the database
    rca_queue,      \* topic rca.requests, unconsumed messages in order
    rca_pc,         \* "idle", "delete" or "insert": position of the worker
    rca_run,        \* the message process_rca_request is working on
    rca_ranked,     \* the ranked list handed to _store_suspects
    rca_pos,        \* position of the insert loop in the ranked list
    suspects,       \* table suspects
    uuid_next,      \* stands for uuid.uuid4(): the next unused id
    rca_done,       \* history: the runs that returned from _store_suspects
    reruns,         \* number of rerun_rca calls so far
    \* ---- MLRanker and the model artifact ----
    model_file,     \* the file at model_path: absent, or the pickled dict
    rk_started,     \* TRUE once MLRanker.__init__ has run load_model
    rk_read,        \* the content of the file as load_model found it
    rk_model,       \* self.model
    rk_feature_names,  \* self.feature_names
    rk_candidates,  \* the argument of the latest call of rank
    rk_ranked,      \* what that call returned
    rk_raised,      \* TRUE when that call raised instead of returning
    \* ---- POST /incidents/{id}/label, one database statement per step ----
    labels,         \* table labels
    lb_requests,    \* the requests received: arguments, position, what the
                    \* handler read
    lb_next_id,     \* stands for gen_random_uuid(): the next unused label id
    lb_clock,       \* now() of the database
    lb_answered,    \* history: the submissions answered 200, in that order
    \* ---- ActivityLogger and GET /activity/events
    act_events,     \* the sorted set activity:events: rows [member, score]
    act_clock,      \* datetime.now(timezone.utc), in ticks
    act_reply,      \* the reply of the last GET /activity/events
    \* ---- scripts/replay_incident.py
    rp_result,      \* what the last replay computed
    \* ---- topic rca.requests and the consumer group rca-worker
    rt_workers,     \* number of RCAWorker processes in the group
    rt_topic,       \* partition -> the unconsumed messages, in order
    rt_running,     \* worker -> incident_id of the run in progress, or 0
    rt_sent,        \* history: the messages sent, with their sender
    \* ---- scripts/evaluate.py
    ev_results,     \* results_list of evaluate_all_incidents
    ev_return       \* what evaluate_all_incidents returned or raised

detVars == <<d_metric, d_base, d_values, d_timestamps, d_result, d_called>>

grpVars == <<g_input, g_pc, g_sorted, g_idx, g_fold, g_result>>

wrkVars == <<metrics_buffer, now, anomalies, incidents, incident_anomalies,
             anomalies_detected, rca_requests, points_fed>>

rcaVars == <<stored, rca_clock, rca_queue, rca_pc, rca_run, rca_ranked,
             rca_pos, suspects, uuid_next, rca_done, reruns>>

rkVars == <<model_file, rk_started, rk_read, rk_model, rk_feature_names,
            rk_candidates, rk_ranked, rk_raised>>

labVars == <<labels, lb_requests, lb_next_id, lb_clock, lb_answered>>

actVars == <<act_events, act_clock, act_reply>>

rpVars == <<rp_result>>

rtVars == <<rt_workers, rt_topic, rt_running, rt_sent>>

evVars == <<ev_results, ev_return>>

vars == <<detVars, grpVars, wrkVars, rcaVars, rkVars, labVars, actVars, rpVars,
          rtVars, evVars>>

----------------------------------------------------------------------------
(* Generic helpers                                                         *)

Abs(x) == IF x < 0 THEN -x ELSE x

Max2(a, b) == IF a >= b THEN a ELSE b

Min2(a, b) == IF a <= b THEN a ELSE b

Range(s) == { s[i] : i \in DOMAIN s }

\* s[a..b] as Python's s[a-1:b]
Slice(s, a, b) == IF b < a THEN <<>> ELSE SubSeq(s, a, b)

\* the k-th smallest element (1-based) of a non-empty integer sequence
KthSmallest(s, k) ==
    CHOOSE v \in Range(s) :
        /\ Cardinality({ i \in DOMAIN s : s[i] <= v }) >= k
        /\ Cardinality({ i \in DOMAIN s : s[i] <  v }) <  k

\* twice numpy.median of a non-empty integer sequence
Median2(s) ==
    LET n == Len(s) IN
    IF n % 2 = 1 THEN 2 * KthSmallest(s, (n + 1) \div 2)
    ELSE KthSmallest(s, n \div 2) + KthSmallest(s, n \div 2 + 1)

\* fractions num/den with den > 0
Frac(n, d) == [num |-> n, den |-> d]

\* fractions over one baseline share their denominator; comparing the
\* numerators then avoids products beyond the 32-bit integers of the checker
FracLeq(a, b) ==
    IF a.den = b.den THEN a.num <= b.num ELSE a.num * b.den <= b.num * a.den

FracEq(a, b) == FracLeq(a, b) /\ FracLeq(b, a)

FracMax(a, b) == IF FracLeq(b, a) THEN a ELSE b

ZeroFrac == Frac(0, 1)

\* seconds in timedelta(minutes=1)
Minute == 60
Hour == 3600
Day == 86400

----------------------------------------------------------------------------
(* AnomalyDetector: anomaly_detector.py                                    *)

z_threshold == 3
min_points == 10
lookback_days == 7
window_minutes == 5
required_anomalies == 3
MinBufferPoints == 20

\* 1.4826 written as MadScaleNum / MadScaleDen
MadScaleNum == 7413
MadScaleDen == 5000

NoTs == -1

\* bad_directions.get(metric, 'up')
bad_direction(metric) ==
    CASE metric = "p95_latency_ms" -> "up"
      [] metric = "p99_latency_ms" -> "up"
      [] metric = "error_rate"     -> "up"
      [] metric = "qps"            -> "down"
      [] OTHER                     -> "up"

\* compute_baseline: (median, 1.4826 * MAD), or (None, None) on a short sample.
\* median2 = 2 * median, mad4 = 4 * MAD, so scaled MAD = 1.4826 * mad4 / 4.
compute_baseline(values) ==
    IF Len(values) < min_points
    THEN [valid |-> FALSE, median2 |-> 0, mad4 |-> 0]
    ELSE LET m2   == Median2(values)
             dev2 == [ i \in DOMAIN values |-> Abs(2 * values[i] - m2) ]
         IN  [valid |-> TRUE, median2 |-> m2, mad4 |-> Median2(dev2)]

\* scaled MAD < 1e-6: (7413/5000) * mad4 / 4 < 1/1000000, i.e.
\* 7413 * mad4 * 50 < 1
MadBelowFloor(b) == MadScaleNum * b.mad4 * 50 < 1

\* |value - median| / scaled MAD for a scaled MAD at or above the floor
RawZ(value, b) ==
    Frac(2 * MadScaleDen * Abs(2 * value - b.median2), MadScaleNum * b.mad4)

\* |value - median| / 1e-6
FloorZ(value, b) == Frac(500000 * Abs(2 * value - b.median2), 1)

ThresholdFrac == Frac(z_threshold, 1)

\* is_anomaly without the bad-direction filter
is_anomaly_nodirection(value, b, metric) ==
    IF ~b.valid THEN FALSE
    ELSE LET z == IF MadBelowFloor(b) THEN FloorZ(value, b) ELSE RawZ(value, b)
         IN  ~FracLeq(z, ThresholdFrac)

\* is_anomaly with the threshold test dropped: any deviation in the bad
\* direction counts
is_anomaly_nothreshold(value, b, metric) ==
    IF ~b.valid THEN FALSE
    ELSE IF bad_direction(metric) = "down" THEN 2 * value < b.median2
    ELSE 2 * value > b.median2

\* is_anomaly
is_anomaly(value, b, metric) ==
    IF ~b.valid THEN FALSE
    ELSE LET z == IF MadBelowFloor(b) THEN FloorZ(value, b) ELSE RawZ(value, b)
         IN  IF FracLeq(z, ThresholdFrac) THEN FALSE
             ELSE IF bad_direction(metric) = "up" /\ 2 * value < b.median2 THEN FALSE
             ELSE IF bad_direction(metric) = "down" /\ 2 * value > b.median2 THEN FALSE
             ELSE TRUE

\* the z_score the sweep of detect_anomalies_in_window computes for a point
sweep_z(value, b) == IF MadBelowFloor(b) THEN ZeroFrac ELSE RawZ(value, b)

\* loop state of the sweep before the first point
SweepInit ==
    [count |-> 0, maxz |-> ZeroFrac, ws |-> NoTs, we |-> NoTs, out |-> <<>>]

Segment(st) == [start_ts |-> st.ws, end_ts |-> st.we, score |-> st.maxz]

\* the flush of a qualifying run forgotten
SweepFlush_noflush(st) == st.out

\* "if anomaly_count >= required_anomalies and window_start: append"
SweepFlush(st) ==
    IF st.count >= required_anomalies /\ st.ws # NoTs
    THEN Append(st.out, Segment(st))
    ELSE st.out

\* one iteration of the for loop of detect_anomalies_in_window
SweepStep(st, value, ts, b, metric) ==
    IF is_anomaly(value, b, metric)
    THEN [count |-> st.count + 1,
          maxz  |-> FracMax(st.maxz, sweep_z(value, b)),
          ws    |-> IF st.ws = NoTs THEN ts ELSE st.ws,
          we    |-> ts,
          out   |-> st.out]
    ELSE [count |-> 0, maxz |-> ZeroFrac, ws |-> NoTs, we |-> NoTs,
          out   |-> SweepFlush(st)]

RECURSIVE Sweep(_, _, _, _, _, _)
Sweep(st, i, values, timestamps, b, metric) ==
    IF i > Len(values) THEN st
    ELSE Sweep(SweepStep(st, values[i], timestamps[i], b, metric),
               i + 1, values, timestamps, b, metric)

baseline_of(values) ==
    LET baseline_size == Min2(Len(values) - window_minutes,
                              lookback_days * 24 * 60)
    IN  compute_baseline(Slice(values, 1, baseline_size))

\* detect_anomalies_in_window(values, timestamps, metric, 5, 3)
detect_anomalies_in_window(values, timestamps, metric) ==
    IF Len(values) < min_points + required_anomalies THEN <<>>
    ELSE LET b == baseline_of(values) IN
         IF ~b.valid THEN <<>>
         ELSE SweepFlush(Sweep(SweepInit, Len(values) - window_minutes + 1,
                               values, timestamps, b, metric))

\* a nominal series of n points: 50, 51, 49, 50, ... (median 50, MAD 1)
AltBaseline(n) == [ i \in 1..n |-> 49 + (i % 3) ]

\* the detector worker not started: no buffer, empty tables and topics
WrkIdle ==
    /\ metrics_buffer = <<>>
    /\ now = 0
    /\ anomalies = <<>>
    /\ incidents = <<>>
    /\ incident_anomalies = {}
    /\ anomalies_detected = <<>>
    /\ rca_requests = <<>>
    /\ points_fed = 0

\* no message for the RCA worker
NoRun == [incident_id |-> 0]

\* the RCA worker not started: empty tables and topic
RcaIdle ==
    /\ stored = [incidents |-> <<>>, deployments |-> {}, config_changes |-> {},
                 flag_changes |-> {}, metrics |-> {}, logs |-> {}]
    /\ rca_clock = 0
    /\ rca_queue = <<>>
    /\ rca_pc = "idle"
    /\ rca_run = NoRun
    /\ rca_ranked = <<>>
    /\ rca_pos = 1
    /\ suspects = {}
    /\ uuid_next = 1
    /\ rca_done = <<>>
    /\ reruns = 0

\* no file at model_path
NoFile == [kind |-> "absent"]

\* self.model = None, self.feature_names = None
NoModel == [kind |-> "None"]

\* no ranker constructed, no model artifact written
RkIdle ==
    /\ model_file = NoFile
    /\ rk_started = FALSE
    /\ rk_read = NoFile
    /\ rk_model = NoModel
    /\ rk_feature_names = NoModel
    /\ rk_candidates = <<>>
    /\ rk_ranked = <<>>
    /\ rk_raised = FALSE

\* no label submitted
LabIdle ==
    /\ labels = {}
    /\ lb_requests = <<>>
    /\ lb_next_id = 1
    /\ lb_clock = 0
    /\ lb_answered = <<>>

NoReplay == [incident_id |-> 0]

\* replay_incident not run
RpIdle == rp_result = NoReplay

\* no consumer group started, nothing sent
RtIdle ==
    /\ rt_workers = 0
    /\ rt_topic = <<>>
    /\ rt_running = <<>>
    /\ rt_sent = <<>>

NotEvaluated == [status |-> "not run"]

\* evaluate_all_incidents not run
EvIdle ==
    /\ ev_results = <<>>
    /\ ev_return = NotEvaluated

NoReply == [status |-> 0]

\* nothing logged, nothing read
ActIdle ==
    /\ act_events = {}
    /\ act_clock = 0
    /\ act_reply = NoReply

\* detect_anomalies_in_window not in use
DetIdle ==
    /\ d_metric = "p95_latency_ms"
    /\ d_base = 0
    /\ d_values = <<>>
    /\ d_timestamps = <<>>
    /\ d_result = <<>>
    /\ d_called = FALSE

----------------------------------------------------------------------------
(* IncidentGrouper: incident_grouper.py                                    *)

gap_minutes == 10

\* the services of the deployment, in the order sorted() gives their names
ServiceOrder == <<"order", "payment">>

Services == Range(ServiceOrder)

NoIncident == [id |-> 0]

RECURSIVE JoinFrom(_, _, _)
\* ', '.join of the names of ServiceOrder[i..] that are in svcs
JoinFrom(svcs, i, first) ==
    IF i > Len(ServiceOrder) THEN ""
    ELSE IF ServiceOrder[i] \in svcs
         THEN (IF first THEN "" ELSE ", ") \o ServiceOrder[i]
                  \o JoinFrom(svcs, i + 1, FALSE)
         ELSE JoinFrom(svcs, i + 1, first)

RECURSIVE JoinBackFrom(_, _, _)
\* the same from ServiceOrder[i] downwards
JoinBackFrom(svcs, i, first) ==
    IF i < 1 THEN ""
    ELSE IF ServiceOrder[i] \in svcs
         THEN (IF first THEN "" ELSE ", ") \o ServiceOrder[i]
                  \o JoinBackFrom(svcs, i - 1, FALSE)
         ELSE JoinBackFrom(svcs, i - 1, first)

\* the names joined in descending order
services_str_descending(svcs) == JoinBackFrom(svcs, Len(ServiceOrder), TRUE)

\* ', '.join(sorted(services))
services_str(svcs) == JoinFrom(svcs, 1, TRUE)

RECURSIVE InsertByStart(_, _)
\* a inserted into the sorted list s behind every element that does not
\* start later (sorted() is stable)
InsertByStart(s, a) ==
    IF s = <<>> THEN <<a>>
    ELSE IF s[Len(s)].start_ts <= a.start_ts THEN Append(s, a)
    ELSE Append(InsertByStart(SubSeq(s, 1, Len(s) - 1), a), s[Len(s)])

\* the list as handed in, in place of sorted_anomalies
sorted_by_start_asgiven(s) == s

RECURSIVE SortFrom(_, _, _)
SortFrom(acc, s, i) ==
    IF i > Len(s) THEN acc ELSE SortFrom(InsertByStart(acc, s[i]), s, i + 1)

\* sorted(anomalies, key=lambda a: a['start_ts'])
sorted_by_start(s) == SortFrom(<<>>, s, 1)

\* the dict a new current_incident starts as; uuid4 is the next unused id
NewIncident(id, anomaly) ==
    [id          |-> id,
     start_ts    |-> anomaly.start_ts,
     end_ts      |-> anomaly.end_ts,
     title       |-> "Incident in " \o anomaly.service,
     status      |-> "OPEN",
     anomaly_ids |-> <<anomaly.id>>,
     services    |-> {anomaly.service},
     metrics     |-> {anomaly.metric}]

\* the dict appended to incidents: current_incident without services, metrics
Closed(inc) ==
    [id |-> inc.id, start_ts |-> inc.start_ts, end_ts |-> inc.end_ts,
     title |-> inc.title, status |-> inc.status,
     anomaly_ids |-> inc.anomaly_ids]

\* join rule with the service clause left out
joins_gaponly(cur, anomaly) ==
    anomaly.start_ts - cur.end_ts <= gap_minutes * Minute

\* join rule with the gap clause left out
joins_serviceonly(cur, anomaly) ==
    anomaly.service \in cur.services

\* "gap <= self.gap_minutes or anomaly['service'] in current_incident['services']"
\* with gap = (start_ts - end_ts).total_seconds() / 60
joins(cur, anomaly) ==
    \/ anomaly.start_ts - cur.end_ts <= gap_minutes * Minute
    \/ anomaly.service \in cur.services

\* the end_ts of a joined anomaly taken as it is
joined_end_nomax(cur, anomaly) == anomaly.end_ts

\* max(current_incident['end_ts'], anomaly['end_ts'])
joined_end(cur, anomaly) == Max2(cur.end_ts, anomaly.end_ts)

\* current_incident after the anomaly was added to it
Joined(cur, anomaly) ==
    LET svcs == cur.services \cup {anomaly.service} IN
    [cur EXCEPT !.end_ts      = joined_end(cur, anomaly),
                !.anomaly_ids = Append(@, anomaly.id),
                !.services    = svcs,
                !.metrics     = @ \cup {anomaly.metric},
                !.title       = IF Cardinality(svcs) > 1
                                THEN "Incident affecting " \o services_str(svcs)
                                ELSE @]

\* loop state of group_anomalies before the first anomaly; next_id is the
\* first id uuid4 has not handed out
FoldInit(next_id) ==
    [current |-> NoIncident, incidents |-> <<>>, next_id |-> next_id]

\* one iteration of the for loop of group_anomalies
FoldStep(f, anomaly) ==
    IF f.current = NoIncident
    THEN [f EXCEPT !.current = NewIncident(f.next_id, anomaly),
                   !.next_id = @ + 1]
    ELSE IF joins(f.current, anomaly)
    THEN [f EXCEPT !.current = Joined(f.current, anomaly)]
    ELSE [current   |-> NewIncident(f.next_id, anomaly),
          incidents |-> Append(f.incidents, Closed(f.current)),
          next_id   |-> f.next_id + 1]

\* "if current_incident: incidents.append(...)"
FoldFinish(f) ==
    IF f.current # NoIncident
    THEN Append(f.incidents, Closed(f.current))
    ELSE f.incidents

RECURSIVE FoldFrom(_, _, _)
FoldFrom(f, s, i) ==
    IF i > Len(s) THEN f ELSE FoldFrom(FoldStep(f, s[i]), s, i + 1)

\* group_anomalies(anomalies), with next_id the first unused incident id
group_anomalies(anoms, next_id) ==
    IF anoms = <<>> THEN <<>>
    ELSE FoldFinish(FoldFrom(FoldInit(next_id), sorted_by_start(anoms), 1))

----------------------------------------------------------------------------
(* RCA: candidate_generator.py, feature_extractor.py, ranker.py            *)
(*                                                                         *)
(* Feature values and scores are floats in the source; the model carries   *)
(* them in thousandths (milli), so 1.0 is 1000.  The stored inputs of the  *)
(* model make every quotient below come out exact.                         *)

lookback_hours == 2
lookforward_hours == 0

NoService == "NULL"

\* str.lower() on the letters the diff summaries use
LowerOf(c) ==
    CASE c = "A" -> "a" [] c = "B" -> "b" [] c = "C" -> "c" [] c = "D" -> "d"
      [] c = "E" -> "e" [] c = "I" -> "i" [] c = "M" -> "m" [] c = "P" -> "p"
      [] c = "R" -> "r" [] c = "T" -> "t" [] c = "U" -> "u"
      [] OTHER -> c

RECURSIVE LowerFrom(_, _)
LowerFrom(str, i) ==
    IF i > Len(str) THEN ""
    ELSE LowerOf(SubSeq(str, i, i)) \o LowerFrom(str, i + 1)

lower(str) == LowerFrom(str, 1)

\* "keyword in diff_lower"
contains(str, keyword) ==
    \E i \in 1..(Len(str) - Len(keyword) + 1) :
        SubSeq(str, i, i + Len(keyword) - 1) = keyword

diff_keywords ==
    {"timeout", "retry", "cache", "db", "database", "connection", "pool"}

\* rows of a query as a list in any order that has ts non-increasing
\* ("ORDER BY ts DESC": rows of equal ts come in an order SQL leaves open)
OrderedByTsDesc(rows) ==
    LET n == Cardinality(rows) IN
    { q \in [1..n -> rows] :
        /\ \A i \in 1..n : \A j \in 1..n : i # j => q[i] # q[j]
        /\ \A i \in 1..(n - 1) : q[i].ts >= q[i + 1].ts }

\* the elements of a set as a list in any order (a query without ORDER BY)
AnyOrder(S) ==
    LET n == Cardinality(S) IN
    { q \in [1..n -> S] : \A i \in 1..n : \A j \in 1..n : i # j => q[i] # q[j] }

\* the rows of the table in the window, of any service
ServiceRowsIn_anyservice(table, window_start, window_end, affected) ==
    { r \in table : r.ts >= window_start /\ r.ts <= window_end }

\* _get_deployments / _get_config_changes: rows of the table in the window
\* whose service is affected
ServiceRowsIn(table, window_start, window_end, affected) ==
    { r \in table : /\ r.ts >= window_start /\ r.ts <= window_end
                    /\ r.service \in affected }

\* _get_flag_changes: "... AND (service = ANY($3) OR service IS NULL)"
FlagRowsIn(table, window_start, window_end, affected) ==
    { r \in table : /\ r.ts >= window_start /\ r.ts <= window_end
                    /\ (r.service \in affected \/ r.service = NoService) }

\* the candidate dict built from a row of deployments or config_changes;
\* of its metadata only diff_summary is read later
ChangeCandidate(kind, r) ==
    [suspect_type |-> kind, suspect_key |-> r.id, ts |-> r.ts,
     service |-> r.service, diff_summary |-> r.diff_summary]

\* the candidate dict built from a row of feature_flag_changes: its metadata
\* has no diff_summary, which reads as ''
FlagCandidate(r) ==
    [suspect_type |-> "FLAG", suspect_key |-> r.id, ts |-> r.ts,
     service |-> r.service, diff_summary |-> ""]

\* the fallback candidate dated at the incident start
ServiceCandidate_at_start(service, incident_start) ==
    [suspect_type |-> "SERVICE", suspect_key |-> "service_" \o service,
     ts |-> incident_start, service |-> service, diff_summary |-> ""]

\* the fallback candidate of generate_candidates
ServiceCandidate(service, incident_start) ==
    [suspect_type |-> "SERVICE", suspect_key |-> "service_" \o service,
     ts |-> incident_start - 30 * Minute, service |-> service,
     diff_summary |-> ""]

\* the lists generate_candidates may return for the incident window, given
\* affected_services as the list the caller read
generate_candidates(world, incident_start, incident_end, affected_list) ==
    LET window_start == incident_start - lookback_hours * Hour
        window_end   == incident_end + lookforward_hours * Hour
        affected     == Range(affected_list)
        deps  == ServiceRowsIn(world.deployments, window_start, window_end, affected)
        confs == ServiceRowsIn(world.config_changes, window_start, window_end, affected)
        flags == FlagRowsIn(world.flag_changes, window_start, window_end, affected)
    IN  { IF Len(d) + Len(c) + Len(f) = 0
          THEN [ i \in DOMAIN affected_list |->
                   ServiceCandidate(affected_list[i], incident_start) ]
          ELSE   [ i \in DOMAIN d |-> ChangeCandidate("DEPLOYMENT", d[i]) ]
              \o [ i \in DOMAIN c |-> ChangeCandidate("CONFIG", c[i]) ]
              \o [ i \in DOMAIN f |-> FlagCandidate(f[i]) ] :
          d \in OrderedByTsDesc(deps), c \in OrderedByTsDesc(confs),
          f \in OrderedByTsDesc(flags) }

\* features.update(more): the keys of more replace those of features
update(features, more) == more @@ features

\* _extract_time_features (milli)
time_features(candidate, incident_start) ==
    LET minutes_before == ((incident_start - candidate.ts) * 1000) \div 60 IN
    [minutes_before_incident |-> minutes_before,
     is_before_incident      |-> IF minutes_before >= 0 THEN 1000 ELSE 0,
     time_proximity_score    |-> Max2(0, 1000 - Abs(minutes_before) \div 60)]

RECURSIVE SumOf(_, _)
\* the sum of f over the finite set S
SumOf(S, f) ==
    IF S = {} THEN 0
    ELSE LET x == CHOOSE y \in S : TRUE IN f[x] + SumOf(S \ {x}, f)

\* "SELECT metric, avg(value) ... GROUP BY metric" over the rows of the
\* service with lo <= ts < hi (hi included when closed): metric -> avg (milli)
avg_by_metric(world, service, lo, hi, closed) ==
    LET rows == { r \in world.metrics :
                    /\ r.service = service /\ r.ts >= lo
                    /\ (IF closed THEN r.ts <= hi ELSE r.ts < hi) }
        names == { r.metric : r \in rows }
    IN  [ name \in names |->
            LET of == { r \in rows : r.metric = name } IN
            (SumOf(of, [ r \in of |-> r.value ]) * 1000) \div Cardinality(of) ]

MaxOf(S) == CHOOSE x \in S : \A y \in S : y <= x

\* _extract_correlation_features (milli)
correlation_features(world, candidate, incident_end, affected_list) ==
    IF candidate.suspect_type # "DEPLOYMENT"
       \/ candidate.service \notin Range(affected_list)
    THEN [metric_delta_count |-> 0, max_metric_delta |-> 0]
    ELSE LET before == avg_by_metric(world, candidate.service,
                           candidate.ts - 10 * Minute, candidate.ts, FALSE)
             after  == avg_by_metric(world, candidate.service,
                           candidate.ts, incident_end, TRUE)
             shared == { name \in DOMAIN before \cap DOMAIN after :
                           before[name] > 0 }
             delta  == [ name \in shared |->
                           (Abs(after[name] - before[name]) * 1000)
                               \div before[name] ]
         IN  IF shared # {}
             THEN [metric_delta_count |-> 1000 * Cardinality(shared),
                   max_metric_delta   |-> MaxOf({ delta[name] : name \in shared }),
                   avg_metric_delta   |-> SumOf(shared, delta)
                                              \div Cardinality(shared)]
             ELSE [metric_delta_count |-> 0, max_metric_delta |-> 0,
                   avg_metric_delta |-> 0]

\* "SELECT count() FROM logs WHERE service = ... AND level = 'ERROR' ..."
error_count(world, service, lo, hi, closed, events) ==
    Cardinality({ r \in world.logs :
                    /\ r.service = service /\ r.level = "ERROR"
                    /\ r.event \in events
                    /\ r.ts >= lo
                    /\ (IF closed THEN r.ts <= hi ELSE r.ts < hi) })

LogEvents == {"DB_TIMEOUT", "HTTP_500", "NONE"}

\* _extract_log_features (milli)
log_features(world, candidate, incident_end) ==
    IF candidate.suspect_type # "DEPLOYMENT"
    THEN [error_log_delta |-> 0, new_error_signature |-> 0]
    ELSE LET before_errors == error_count(world, candidate.service,
                                  candidate.ts - 10 * Minute, candidate.ts,
                                  FALSE, LogEvents)
             after_errors  == error_count(world, candidate.service,
                                  candidate.ts, incident_end, TRUE, LogEvents)
             new_errors    == error_count(world, candidate.service,
                                  candidate.ts, incident_end, TRUE,
                                  {"DB_TIMEOUT"})
         IN  [error_log_delta     |-> ((after_errors - before_errors) * 1000)
                                          \div Max2(before_errors, 1),
              new_error_signature |-> IF new_errors > 0 THEN 1000 ELSE 0]

\* _extract_diff_features (milli)
diff_features(candidate) ==
    IF candidate.diff_summary = ""
    THEN [diff_length |-> 0, diff_keyword_hit |-> 0]
    ELSE LET diff_lower   == lower(candidate.diff_summary)
             keyword_hits == Cardinality({ k \in diff_keywords :
                                             contains(diff_lower, k) })
         IN  [diff_length        |-> 1000 * Len(candidate.diff_summary),
              diff_keyword_hit   |-> IF keyword_hits > 0 THEN 1000 ELSE 0,
              diff_keyword_count |-> 1000 * keyword_hits]

\* _extract_historical_features: incidents of the 30 days before clock, the
\* NOW() of the query, with an anomaly of the candidate's service (milli)
historical_features(world, candidate, clock) ==
    IF candidate.service = NoService
    THEN [service_incident_rate_30d |-> 0]
    ELSE [service_incident_rate_30d |->
            1000 * Cardinality({ i \in DOMAIN world.incidents :
                     /\ candidate.service \in world.incidents[i].services
                     /\ world.incidents[i].start_ts >= clock - 30 * Day })]

\* extract_features
extract_features(world, candidate, incident_start, incident_end, affected_list, clock) ==
    update(update(update(update(
        time_features(candidate, incident_start),
        correlation_features(world, candidate, incident_end, affected_list)),
        log_features(world, candidate, incident_end)),
        diff_features(candidate)),
        historical_features(world, candidate, clock))

\* evidence.get(name, default)
get(evidence, name, default) ==
    IF name \in DOMAIN evidence THEN evidence[name] ELSE default

\* 1000 * math.exp(-minutes / 30.0), rounded, for the distances between a
\* change and an incident the stored inputs have (minutes in milli)
exp_decay(minutes) ==
    CASE minutes = 0      -> 1000
      [] minutes = 30000  -> 368
      [] minutes = 60000  -> 135
      [] minutes = 90000  -> 50
      [] minutes = 120000 -> 18

\* HeuristicRanker._compute_score (milli)
compute_score(evidence) ==
    LET is_before == get(evidence, "is_before_incident", 0)
        minutes   == get(evidence, "minutes_before_incident", 60000)
        max_delta == get(evidence, "max_metric_delta", 0)
        err_delta == get(evidence, "error_log_delta", 0)
        new_error == get(evidence, "new_error_signature", 0)
        kw_hit    == get(evidence, "diff_keyword_hit", 0)
    IN    3 * is_before
        + (IF is_before > 0 THEN 2 * exp_decay(Abs(minutes)) ELSE 0)
        + (5 * Min2(1000, max_delta)) \div 2
        + 2 * Min2(1000, Max2(0, err_delta \div 10))
        + (3 * new_error) \div 2
        + kw_hit

RECURSIVE InsertByScore(_, _)
\* c inserted behind every element whose score is not lower
\* (list.sort(reverse=True) keeps the order of equal scores)
InsertByScore(s, c) ==
    IF s = <<>> THEN <<c>>
    ELSE IF s[Len(s)].score >= c.score THEN Append(s, c)
    ELSE Append(InsertByScore(SubSeq(s, 1, Len(s) - 1), c), s[Len(s)])

RECURSIVE SortByScoreFrom(_, _, _)
SortByScoreFrom(acc, s, i) ==
    IF i > Len(s) THEN acc
    ELSE SortByScoreFrom(InsertByScore(acc, s[i]), s, i + 1)

\* "candidate['rank'] = i + 1" for the i-th (from 1 here) of the sorted list
rank_of(i) == i

\* HeuristicRanker.rank, which MLRanker.rank falls back to without a model
rank(candidates) ==
    LET scored == [ i \in DOMAIN candidates |->
                      [suspect_type |-> candidates[i].suspect_type,
                       suspect_key  |-> candidates[i].suspect_key,
                       evidence     |-> candidates[i].evidence,
                       score        |-> compute_score(candidates[i].evidence)] ]
        sorted == SortByScoreFrom(<<>>, scored, 1)
    IN  [ i \in DOMAIN sorted |->
            [suspect_type |-> sorted[i].suspect_type,
             suspect_key  |-> sorted[i].suspect_key,
             evidence     |-> sorted[i].evidence,
             score        |-> sorted[i].score,
             rank         |-> rank_of(i)] ]

\* the ranked lists one RCA run may compute for an incident: affected
\* services, candidates, features, ranking
ranked_lists(world, clock, incident_id, incident_start, incident_end) ==
    LET services == IF incident_id \in DOMAIN world.incidents
                    THEN world.incidents[incident_id].services ELSE {}
    IN  UNION { { rank([ i \in DOMAIN cands |->
                          [suspect_type |-> cands[i].suspect_type,
                           suspect_key  |-> cands[i].suspect_key,
                           evidence     |-> extract_features(world, cands[i],
                                               incident_start, incident_end,
                                               affected, clock)] ]) :
                  cands \in generate_candidates(world, incident_start,
                                                incident_end, affected) } :
                affected \in AnyOrder(services) }

----------------------------------------------------------------------------
(* Specification SpecGroup: group_anomalies on bounded inputs              *)

MaxAnoms == 3          \* anomalies in one call of group_anomalies

\* start times and durations of the anomalies handed in (seconds); the
\* starts put 8 and 25 minutes between the end of a two-minute anomaly that
\* starts at 0 and the next starts
GrpStarts == {0, 10 * Minute, 27 * Minute}

GrpDurations == {2 * Minute, 20 * Minute}

MetricOf(service) == IF service = "order" THEN "qps" ELSE "p95_latency_ms"

GrpAnomaly(id, start, dur, service) ==
    [id |-> id, start_ts |-> start, end_ts |-> start + dur,
     service |-> service, metric |-> MetricOf(service), score |-> Frac(4, 1)]

GrpInputs(n) ==
    { [ i \in 1..n |-> GrpAnomaly(i, c[i][1], c[i][2], c[i][3]) ] :
        c \in [1..n -> GrpStarts \X GrpDurations \X Services] }

GrpIdle ==
    /\ g_input = <<>>
    /\ g_pc = "done"
    /\ g_sorted = <<>>
    /\ g_idx = 1
    /\ g_fold = FoldInit(1)
    /\ g_result = <<>>

InitGroup ==
    /\ LabIdle
    /\ ActIdle
    /\ RpIdle
    /\ RtIdle
    /\ EvIdle
    /\ RkIdle
    /\ DetIdle
    /\ WrkIdle
    /\ RcaIdle
    /\ \E n \in 0..MaxAnoms : g_input \in GrpInputs(n)
    /\ g_pc = "start"
    /\ g_sorted = <<>>
    /\ g_idx = 1
    /\ g_fold = FoldInit(1)
    /\ g_result = <<>>

\* entry of group_anomalies: the empty-input return, or the sort
GrpSort ==
    /\ g_pc = "start"
    /\ IF g_input = <<>>
       THEN /\ g_pc' = "done"
            /\ g_result' = <<>>
            /\ UNCHANGED g_sorted
       ELSE /\ g_pc' = "loop"
            /\ g_sorted' = sorted_by_start(g_input)
            /\ UNCHANGED g_result
    /\ UNCHANGED <<g_input, g_idx, g_fold>>
    /\ UNCHANGED <<detVars, wrkVars, rcaVars, rkVars, labVars, actVars, rpVars, rtVars, evVars>>

\* one iteration of "for anomaly in sorted_anomalies"
GrpStep ==
    /\ g_pc = "loop"
    /\ g_idx <= Len(g_sorted)
    /\ g_fold' = FoldStep(g_fold, g_sorted[g_idx])
    /\ g_idx' = g_idx + 1
    /\ UNCHANGED <<g_input, g_pc, g_sorted, g_result>>
    /\ UNCHANGED <<detVars, wrkVars, rcaVars, rkVars, labVars, actVars, rpVars, rtVars, evVars>>

\* the final append and the return
GrpFinish ==
    /\ g_pc = "loop"
    /\ g_idx > Len(g_sorted)
    /\ g_result' = FoldFinish(g_fold)
    /\ g_pc' = "done"
    /\ UNCHANGED <<g_input, g_sorted, g_idx, g_fold>>
    /\ UNCHANGED <<detVars, wrkVars, rcaVars, rkVars, labVars, actVars, rpVars, rtVars, evVars>>

NextGroup == GrpSort \/ GrpStep \/ GrpFinish

SpecGroup == InitGroup /\ [][NextGroup]_vars

----------------------------------------------------------------------------
(* DetectorWorker: detector/job.py                                         *)


\* the (service, metric) series of the deployment
Keys == { <<"payment", "p95_latency_ms">>, <<"order", "qps">> }

RECURSIVE InsertByTs(_, _)
\* point p inserted behind every point that is not later (list.sort is stable)
InsertByTs(s, p) ==
    IF s = <<>> THEN <<p>>
    ELSE IF s[Len(s)][1] <= p[1] THEN Append(s, p)
    ELSE Append(InsertByTs(SubSeq(s, 1, Len(s) - 1), p), s[Len(s)])

RECURSIVE SortPointsFrom(_, _, _)
SortPointsFrom(acc, s, i) ==
    IF i > Len(s) THEN acc ELSE SortPointsFrom(InsertByTs(acc, s[i]), s, i + 1)

\* the list left in arrival order
sort_by_ts_none(data) == data

\* data.sort(key=lambda x: x[0]); a list already in order is left as it is
sort_by_ts(data) ==
    IF \A i \in 1..(Len(data) - 1) : data[i][1] <= data[i + 1][1] THEN data
    ELSE SortPointsFrom(<<>>, data, 1)

\* [(t, v) for t, v in buffer if t >= cutoff]
prune(data, cutoff) ==
    LET Keep(p) == p[1] >= cutoff IN SelectSeq(data, Keep)

\* the dedup query of store_anomaly with strict bounds
similar_exists_strict(table, service, metric, start_ts) ==
    \E n \in DOMAIN table :
        /\ table[n].service = service
        /\ table[n].metric = metric
        /\ table[n].start_ts > start_ts - Minute
        /\ table[n].start_ts < start_ts + Minute

\* "SELECT id FROM anomalies WHERE service = $1 AND metric = $2
\*  AND start_ts >= $3 AND start_ts <= $4" returns a row
similar_exists(table, service, metric, start_ts) ==
    \E n \in DOMAIN table :
        /\ table[n].service = service
        /\ table[n].metric = metric
        /\ table[n].start_ts >= start_ts - Minute
        /\ table[n].start_ts <= start_ts + Minute

\* database state and topics as one record, threaded through the handler
Db == [anomalies |-> anomalies, incidents |-> incidents,
       links |-> incident_anomalies, detected |-> anomalies_detected,
       requests |-> rca_requests]

\* the link filter of the query left out
unlinked_unfiltered(db, a) == a \in Range(db.anomalies)

\* "LEFT JOIN incident_anomalies ia ON a.id = ia.anomaly_id
\*  WHERE ia.anomaly_id IS NULL"
unlinked(db, a) == \A l \in db.links : l[2] # a.id

RECURSIVE UngroupedFrom(_, _, _)
\* anomalies without a link that start at or after the cutoff, in table order
UngroupedFrom(db, cutoff, n) ==
    IF n > Len(db.anomalies) THEN <<>>
    ELSE LET a == db.anomalies[n] IN
         IF /\ unlinked(db, a)
            /\ a.start_ts >= cutoff
         THEN <<a>> \o UngroupedFrom(db, cutoff, n + 1)
         ELSE UngroupedFrom(db, cutoff, n + 1)

\* the query without "WHERE ia.anomaly_id IS NULL"
ungrouped_recent_nofilter(db, clock) ==
    LET Recent(a) == a.start_ts >= clock - Hour
    IN  sorted_by_start(SelectSeq(db.anomalies, Recent))

\* the query of group_and_create_incidents: "... WHERE ia.anomaly_id IS NULL
\* AND a.start_ts >= $1 ORDER BY a.start_ts"
ungrouped_recent(db, clock) ==
    sorted_by_start(UngroupedFrom(db, clock - Hour, 1))

\* the row written to table incidents (summary is NULL)
IncidentRow(inc) ==
    [id |-> inc.id, start_ts |-> inc.start_ts, end_ts |-> inc.end_ts,
     title |-> inc.title, status |-> inc.status]

\* the message with the start of the incident for its end
RcaRequest_start_only(inc) ==
    [incident_id |-> inc.id, start_ts |-> inc.start_ts, end_ts |-> inc.start_ts]

\* the message sent to rca.requests for an inserted incident
RcaRequest(inc) ==
    [incident_id |-> inc.id, start_ts |-> inc.start_ts, end_ts |-> inc.end_ts]

\* the end of the last persisted incident moved, in place of a new row
insert_incident_extending(table, inc) ==
    IF table = <<>> THEN Append(table, IncidentRow(inc))
    ELSE [table EXCEPT ![Len(table)].end_ts = inc.end_ts]

\* "INSERT INTO incidents (id, start_ts, end_ts, title, status, summary)
\*  VALUES ($1, $2, $3, $4, $5, $6)"
insert_incident(table, inc) == Append(table, IncidentRow(inc))

RECURSIVE CreateFrom(_, _, _)
\* "for incident in incidents:" insert the incident, link its anomalies,
\* send the RCA request; an id already in the table is skipped
CreateFrom(db, incs, n) ==
    IF n > Len(incs) THEN db
    ELSE LET inc == incs[n] IN
         IF \E k \in DOMAIN db.incidents : db.incidents[k].id = inc.id
         THEN CreateFrom(db, incs, n + 1)
         ELSE CreateFrom(
                [db EXCEPT
                   !.incidents = insert_incident(@, inc),
                   !.links = @ \cup { <<inc.id, inc.anomaly_ids[k]>> :
                                         k \in DOMAIN inc.anomaly_ids },
                   !.requests = Append(@, RcaRequest(inc))],
                incs, n + 1)

\* group_and_create_incidents
group_and_create_incidents(db, clock) ==
    LET recent == ungrouped_recent(db, clock) IN
    IF recent = <<>> THEN db
    ELSE CreateFrom(db, group_anomalies(recent, Len(db.incidents) + 1), 1)

\* store_anomaly: dedup check, insert, emit anomalies.detected, group
store_anomaly(db, service, metric, seg, clock) ==
    IF similar_exists(db.anomalies, service, metric, seg.start_ts) THEN db
    ELSE LET id  == Len(db.anomalies) + 1
             row == [id |-> id, start_ts |-> seg.start_ts,
                     end_ts |-> seg.end_ts, service |-> service,
                     metric |-> metric, score |-> seg.score,
                     detector |-> "robust_zscore"]
         IN  group_and_create_incidents(
                 [db EXCEPT !.anomalies = Append(@, row),
                            !.detected = Append(@, id)],
                 clock)

RECURSIVE StoreFrom(_, _, _, _, _, _)
\* "for start_ts, end_ts, score in anomalies: await self.store_anomaly(...)"
StoreFrom(db, service, metric, segs, clock, n) ==
    IF n > Len(segs) THEN db
    ELSE StoreFrom(store_anomaly(db, service, metric, segs[n], clock),
                   service, metric, segs, clock, n + 1)

\* check_anomalies on the sorted buffer of one key
check_anomalies(db, key, data, clock) ==
    IF Len(data) < MinBufferPoints THEN db
    ELSE LET values     == [ i \in DOMAIN data |-> data[i][2] ]
             timestamps == [ i \in DOMAIN data |-> data[i][1] ]
         IN  StoreFrom(db, key[1], key[2],
                       detect_anomalies_in_window(values, timestamps, key[2]),
                       clock, 1)

----------------------------------------------------------------------------
(* Specification SpecWorker: the detector worker consuming metrics.raw     *)

MaxPoints == 7         \* messages of metrics.raw consumed in one run
HistLen == 20          \* points per key load_historical_metrics finds

\* seconds between two consecutive points of one series
PointGaps == {Minute}

\* values the emitters report: nominal, and a large deviation either way
PointValues == {50, 120, 10}

\* the buffer load_historical_metrics builds: HistLen points a minute apart,
\* sorted by ts, values alternating 49/50/51
History == [ i \in 1..HistLen |-> <<i * Minute, AltBaseline(HistLen)[i]>> ]

InitWorker ==
    /\ LabIdle
    /\ ActIdle
    /\ RpIdle
    /\ RtIdle
    /\ EvIdle
    /\ RkIdle
    /\ DetIdle
    /\ GrpIdle
    /\ RcaIdle
    /\ metrics_buffer = [ k \in Keys |-> History ]
    /\ now = HistLen * Minute
    /\ anomalies = <<>>
    /\ incidents = <<>>
    /\ incident_anomalies = {}
    /\ anomalies_detected = <<>>
    /\ rca_requests = <<>>
    /\ points_fed = 0

LastTs(data) == IF data = <<>> THEN 0 ELSE data[Len(data)][1]

\* process_metric_point for a message (ts, service, metric, value); the
\* worker reads the clock when the point arrives
ProcessMetricPoint(key, value, gap) ==
    /\ points_fed < MaxPoints
    /\ LET ts     == LastTs(metrics_buffer[key]) + gap
           clock  == Max2(now, ts)
           pruned == prune(Append(metrics_buffer[key], <<ts, value>>),
                           clock - 24 * Hour)
           data   == IF Len(pruned) >= MinBufferPoints
                     THEN sort_by_ts(pruned) ELSE pruned
           db     == IF Len(pruned) >= MinBufferPoints
                     THEN check_anomalies(Db, key, data, clock) ELSE Db
       IN  /\ now' = clock
           /\ metrics_buffer' = [metrics_buffer EXCEPT ![key] = data]
           /\ anomalies' = db.anomalies
           /\ incidents' = db.incidents
           /\ incident_anomalies' = db.links
           /\ anomalies_detected' = db.detected
           /\ rca_requests' = db.requests
    /\ points_fed' = points_fed + 1
    /\ UNCHANGED <<detVars, grpVars, rcaVars, rkVars, labVars, actVars, rpVars, rtVars, evVars>>

NextWorker ==
    \E key \in Keys : \E value \in PointValues : \E gap \in PointGaps :
        ProcessMetricPoint(key, value, gap)

SpecWorker == InitWorker /\ [][NextWorker]_vars

----------------------------------------------------------------------------
(* Specification SpecArrival: the detector worker fed the points of one    *)
(* series, some of them dated before points it already has                 *)

ArrivalKey == <<"payment", "p95_latency_ms">>

\* seconds from the ts of the point fed last to the ts of the next: the next
\* minute, or a minute and a half back
ArrivalGaps == {Minute, -90}

ArrivalValues == {50, 120}

\* the buffer of a worker started when the last hour had two rows of the key
ShortHistory == SubSeq(History, HistLen - 1, HistLen)

InitArrival ==
    /\ LabIdle
    /\ ActIdle
    /\ RpIdle
    /\ RtIdle
    /\ EvIdle
    /\ RkIdle
    /\ DetIdle
    /\ GrpIdle
    /\ RcaIdle
    /\ metrics_buffer \in { [ k \in Keys |-> History ],
                            [ k \in Keys |-> ShortHistory ] }
    /\ now = HistLen * Minute
    /\ anomalies = <<>>
    /\ incidents = <<>>
    /\ incident_anomalies = {}
    /\ anomalies_detected = <<>>
    /\ rca_requests = <<>>
    /\ points_fed = 0

NextArrival ==
    \E value \in ArrivalValues : \E gap \in ArrivalGaps :
        ProcessMetricPoint(ArrivalKey, value, gap)

SpecArrival == InitArrival /\ [][NextArrival]_vars

----------------------------------------------------------------------------
(* Properties of the detector worker, checked under SpecWorker             *)

\* C1: no two distinct persisted anomalies of the same (service, metric)
\* have start_ts values 60 seconds or less apart.
C1_Dedup ==
    \A i \in DOMAIN anomalies : \A j \in DOMAIN anomalies :
        (/\ i # j
         /\ anomalies[i].service = anomalies[j].service
         /\ anomalies[i].metric = anomalies[j].metric)
        => Abs(anomalies[i].start_ts - anomalies[j].start_ts) > 60

\* two anomalies of one series were persisted, and a third emission of that
\* series was dropped as similar (more were sent to the detector than stored)
C1_Witness ==
    \E i \in DOMAIN anomalies : \E j \in DOMAIN anomalies :
        /\ i # j
        /\ anomalies[i].service = anomalies[j].service
        /\ anomalies[i].metric = anomalies[j].metric
        /\ \E key \in Keys :
              /\ key = <<anomalies[i].service, anomalies[i].metric>>
              /\ Len(metrics_buffer[key]) >= HistLen + 7

\* the nominal baseline the history of a key gives
HistoryBaseline ==
    compute_baseline([ i \in 1..(HistLen - window_minutes) |-> History[i][2] ])

\* value is a bad point of the key against the history: z > z_threshold in
\* the bad direction of the metric
BadAgainstHistory(key, value) ==
    /\ ~FracLeq(RawZ(value, HistoryBaseline), Frac(z_threshold, 1))
    /\ IF bad_direction(key[2]) = "down"
       THEN 2 * value < HistoryBaseline.median2
       ELSE 2 * value > HistoryBaseline.median2

\* the buffer of key is its history followed by k points, all bad and of
\* one value, with required_anomalies <= k <= window_minutes
RunOfBadPoints(key) ==
    LET data == metrics_buffer[key]
        k    == Len(data) - HistLen
    IN  /\ k >= required_anomalies /\ k <= window_minutes
        /\ SubSeq(data, 1, HistLen) = History
        /\ \A i \in (HistLen + 1)..Len(data) :
              /\ BadAgainstHistory(key, data[i][2])
              /\ data[i][2] = data[HistLen + 1][2]

AnomaliesOf(key) ==
    { n \in DOMAIN anomalies :
        anomalies[n].service = key[1] /\ anomalies[n].metric = key[2] }

\* C8: k consecutive bad points (required_anomalies <= k <= window_minutes)
\* fed one at a time leave exactly one persisted anomaly for the run, with
\* score >= the z of the run, start_ts the first and end_ts the last of the
\* k points.
C8_OneAnomalyCoversRun ==
    \A key \in Keys :
        RunOfBadPoints(key) =>
            LET data == metrics_buffer[key] IN
            /\ Cardinality(AnomaliesOf(key)) = 1
            /\ \A n \in AnomaliesOf(key) :
                  /\ anomalies[n].start_ts = data[HistLen + 1][1]
                  /\ anomalies[n].end_ts = data[Len(data)][1]
                  /\ FracLeq(RawZ(data[HistLen + 1][2], HistoryBaseline),
                             anomalies[n].score)

\* the incidents the anomaly is linked to
IncidentsOf(anomaly_id) ==
    { l[1] : l \in { x \in incident_anomalies : x[2] = anomaly_id } }

\* C12: in every state each anomaly is linked to at most one incident, and
\* no step removes a link or gives a linked anomaly another incident.
C12_LinkedOnce ==
    /\ [](\A n \in DOMAIN anomalies :
             Cardinality(IncidentsOf(anomalies[n].id)) <= 1)
    /\ [][ /\ incident_anomalies \subseteq incident_anomalies'
           /\ \A l \in incident_anomalies' \ incident_anomalies :
                 \A x \in incident_anomalies : x[2] # l[2] ]_vars

\* a second grouping run has made a second incident, and every anomaly stored
\* so far has its one link
C12_Witness ==
    /\ Len(incidents) >= 2
    /\ Len(anomalies) >= 2
    /\ \A n \in DOMAIN anomalies :
          Cardinality(IncidentsOf(anomalies[n].id)) = 1

\* C26: every anomaly the detector worker has persisted has
\* start_ts <= end_ts, in whatever order the metric points arrived.
\* (Checked under SpecArrival.)
C26_StartNotAfterEnd ==
    \A n \in DOMAIN anomalies : anomalies[n].start_ts <= anomalies[n].end_ts

\* an anomaly was persisted for a run of points that has a point dated
\* between two points the buffer already had (the timestamps fed in order
\* are whole minutes)
C26_Witness ==
    \E n \in DOMAIN anomalies :
        /\ anomalies[n].start_ts < anomalies[n].end_ts
        /\ (anomalies[n].end_ts - anomalies[n].start_ts) % Minute # 0

\* C27: after each metric point is processed, the buffer of its key is
\* sorted non-decreasing by ts and has no entry older than 24 hours, also
\* when points arrive out of timestamp order.  (Checked under SpecArrival.)
C27_BufferSortedAndPruned ==
    \A key \in Keys :
        LET data == metrics_buffer[key] IN
        /\ \A i \in 1..(Len(data) - 1) : data[i][1] <= data[i + 1][1]
        /\ \A i \in DOMAIN data : data[i][1] >= now - 24 * Hour

\* how long after the last run group_and_create_incidents is called again
RerunDelays == {0, Minute, Hour}

----------------------------------------------------------------------------
(* Properties of group_anomalies, checked under SpecGroup                  *)

\* the input anomaly with the given id
GrpById(id) == g_input[id]

\* the largest end_ts among the anomalies with the given ids
MaxEndOf(ids) ==
    CHOOSE e \in { GrpById(ids[k]).end_ts : k \in DOMAIN ids } :
        \A k \in DOMAIN ids : GrpById(ids[k]).end_ts <= e

\* C5: while group_anomalies folds anomalies into the open incident, the
\* end_ts of the open incident never decreases, and the end_ts of every
\* returned incident is the maximum end_ts of its member anomalies.
C5_EndTsMonotone ==
    /\ [][ (/\ g_fold.current # NoIncident
            /\ g_fold'.current # NoIncident
            /\ g_fold'.current.id = g_fold.current.id)
           => g_fold'.current.end_ts >= g_fold.current.end_ts ]_vars
    /\ [](g_pc = "done" =>
            \A n \in DOMAIN g_result :
                g_result[n].end_ts = MaxEndOf(g_result[n].anomaly_ids))

\* an incident was returned whose last member ends before an earlier member
C5_Witness ==
    /\ g_pc = "done"
    /\ \E n \in DOMAIN g_result :
          LET ids == g_result[n].anomaly_ids IN
          /\ Len(ids) >= 2
          /\ GrpById(ids[Len(ids)]).end_ts < g_result[n].end_ts

\* the grouping scenario: three anomalies, the first two on one service, the
\* second starting 8 minutes and the third 25 minutes after the first ends
GroupingScenario ==
    /\ g_pc = "done"
    /\ Len(g_sorted) = 3
    /\ g_sorted[1].service = g_sorted[2].service
    /\ g_sorted[2].start_ts - g_sorted[1].end_ts = 8 * Minute
    /\ g_sorted[3].start_ts - g_sorted[1].end_ts = 25 * Minute

MemberServices(inc) ==
    { GrpById(inc.anomaly_ids[k]).service : k \in DOMAIN inc.anomaly_ids }

\* the title the specification gives an incident with these member services
TitleFor(svcs) ==
    CASE svcs = {"order"}   -> "Incident in order"
      [] svcs = {"payment"} -> "Incident in payment"
      [] svcs = {"order", "payment"} -> "Incident affecting order, payment"

\* an anomaly on order at 0 and one on payment two minutes later
CrossServicePair ==
    << GrpAnomaly(1, 0, 2 * Minute, "order"),
       GrpAnomaly(2, 2 * Minute, 2 * Minute, "payment") >>

\* C11: every incident group_anomalies returns is titled "Incident in
\* <service>" when its members are of one service and "Incident affecting "
\* followed by the member services in ascending order joined by ", " when
\* they are of more than one; an anomaly on order at t and one on payment at
\* t + 2 min, in either input order, give the one incident "Incident
\* affecting order, payment".
C11_TitleNamesServices ==
    /\ g_pc = "done" =>
          \A n \in DOMAIN g_result :
              g_result[n].title = TitleFor(MemberServices(g_result[n]))
    /\ \A pair \in { CrossServicePair,
                     <<CrossServicePair[2], CrossServicePair[1]>> } :
          LET result == group_anomalies(pair, 1) IN
          /\ Len(result) = 1
          /\ result[1].title = "Incident affecting order, payment"

\* an incident of two services was returned whose first member is on payment
C11_Witness ==
    /\ g_pc = "done"
    /\ \E n \in DOMAIN g_result :
          /\ MemberServices(g_result[n]) = {"order", "payment"}
          /\ GrpById(g_result[n].anomaly_ids[1]).service = "payment"
    /\ \E n \in DOMAIN g_result : Cardinality(MemberServices(g_result[n])) = 1

\* the rule of the specification for the anomaly joining the open incident
\* with these member ids: within gap_minutes of the largest member end_ts, or
\* of a service a member has
JoinRule(ids, anomaly) ==
    \/ anomaly.start_ts - MaxEndOf(ids) <= gap_minutes * Minute
    \/ \E k \in DOMAIN ids : GrpById(ids[k]).service = anomaly.service

----------------------------------------------------------------------------
(* Specification SpecDetect: detect_anomalies_in_window on bounded inputs  *)

MaxExtra == 1          \* evaluation points appended beyond one full window

DetMetrics == {"p95_latency_ms", "qps", "custom_gauge"}

\* values a point of the evaluation window may take (baselines centre on 50)
DetValues == {10, 50, 52, 120}


\* baseline prefixes: alternating 49/50/51 (median 50, MAD 1), all-equal 50,
\* and one shorter than min_points
FlatBaseline(n) == [ i \in 1..n |-> 50 ]

DetBaselines == { AltBaseline(12), FlatBaseline(12), AltBaseline(9) }

StampsOf(n) == [ i \in 1..n |-> i * Minute ]

InitDetect ==
    /\ LabIdle
    /\ ActIdle
    /\ RpIdle
    /\ RtIdle
    /\ EvIdle
    /\ RkIdle
    /\ GrpIdle
    /\ WrkIdle
    /\ RcaIdle
    /\ d_metric \in DetMetrics
    /\ d_values \in DetBaselines
    /\ d_base = Len(d_values)
    /\ d_timestamps = StampsOf(Len(d_values))
    /\ d_result = <<>>
    /\ d_called = FALSE

\* the caller extends the series by one point
DetAppend ==
    /\ ~d_called
    /\ Len(d_values) < d_base + window_minutes + MaxExtra
    /\ \E v \in DetValues :
          /\ d_values' = Append(d_values, v)
          /\ d_timestamps' = Append(d_timestamps, (Len(d_values) + 1) * Minute)
    /\ UNCHANGED <<d_metric, d_base, d_result, d_called>>
    /\ UNCHANGED <<grpVars, wrkVars, rcaVars, rkVars, labVars, actVars, rpVars, rtVars, evVars>>

\* the call of detect_anomalies_in_window
DetDetect ==
    /\ ~d_called
    /\ d_result' = detect_anomalies_in_window(d_values, d_timestamps, d_metric)
    /\ d_called' = TRUE
    /\ UNCHANGED <<d_metric, d_base, d_values, d_timestamps>>
    /\ UNCHANGED <<grpVars, wrkVars, rcaVars, rkVars, labVars, actVars, rpVars, rtVars, evVars>>

NextDetect == DetAppend \/ DetDetect

SpecDetect == InitDetect /\ [][NextDetect]_vars

----------------------------------------------------------------------------
(* Properties of detect_anomalies_in_window, checked under SpecDetect      *)

\* indices of the evaluation window: the last window_minutes points
d_window == (Len(d_values) - window_minutes + 1) .. Len(d_values)

\* the signed deviation of point i matches the bad direction of the metric
RightDirection(b, i) ==
    IF bad_direction(d_metric) = "down"
    THEN 2 * d_values[i] < b.median2
    ELSE 2 * d_values[i] > b.median2

\* the z of point i: |v - m| / scaled MAD, and 0 on a scaled MAD below the
\* floor (section 4.1, numerical edge cases)
PointZ(b, i) ==
    IF 50 * MadScaleNum * b.mad4 < 1 THEN ZeroFrac
    ELSE Frac(2 * MadScaleDen * Abs(2 * d_values[i] - b.median2),
              MadScaleNum * b.mad4)

\* point i is bad: z > z_threshold and deviating in the bad direction
BadPoint(b, i) ==
    /\ ~FracLeq(PointZ(b, i), Frac(z_threshold, 1))
    /\ RightDirection(b, i)

\* i..j is a maximal run of bad points of the evaluation window
MaximalBadRun(b, i, j) ==
    /\ i \in d_window /\ j \in d_window /\ i <= j
    /\ \A k \in i..j : BadPoint(b, k)
    /\ (i - 1 \in d_window => ~BadPoint(b, i - 1))
    /\ (j + 1 \in d_window => ~BadPoint(b, j + 1))

\* some z of the run equals z, and none exceeds it
IsMaxZOfRun(b, z, i, j) ==
    /\ \E k \in i..j : FracEq(PointZ(b, k), z)
    /\ \A k \in i..j : FracLeq(PointZ(b, k), z)

\* C6: with a valid baseline, every run of at least required_anomalies
\* consecutive bad points (z > z_threshold, bad direction) of the evaluation
\* window is returned as a segment (first_ts, last_ts, max_z), whether the
\* run is ended by a good point or by the end of the window.
C6_RunDetected ==
    (d_called /\ Len(d_values) >= window_minutes) =>
        LET b == baseline_of(d_values) IN
        b.valid =>
            \A i \in d_window : \A j \in d_window :
                (MaximalBadRun(b, i, j) /\ j - i + 1 >= required_anomalies) =>
                    \E n \in DOMAIN d_result :
                        /\ d_result[n].start_ts = d_timestamps[i]
                        /\ d_result[n].end_ts = d_timestamps[j]
                        /\ IsMaxZOfRun(b, d_result[n].score, i, j)

\* a run of exactly three bad points broken by a later good point was returned
C6_WitnessBroken ==
    /\ d_called
    /\ LET b == baseline_of(d_values) IN
       /\ b.valid
       /\ \E i \in d_window :
             /\ MaximalBadRun(b, i, i + 2)
             /\ i + 3 \in d_window
             /\ Len(d_result) = 1
             /\ d_result[1].start_ts = d_timestamps[i]
             /\ d_result[1].end_ts = d_timestamps[i + 2]

\* every point of the evaluation window lies within
\* +- z_threshold * scaled MAD of the baseline median
WindowWithinBand(b) ==
    \A i \in d_window :
        2 * MadScaleDen * Abs(2 * d_values[i] - b.median2)
            <= z_threshold * MadScaleNum * b.mad4

\* C7: no segment is returned when every point of the evaluation window
\* lies within +- z_threshold * scaled MAD of the baseline median.
C7_QuietWindowNoSegment ==
    (d_called /\ Len(d_values) >= window_minutes) =>
        LET b == baseline_of(d_values) IN
        WindowWithinBand(b) => d_result = <<>>

\* a quiet window with three consecutive points above the median (52 against
\* median 50, MAD 1)
C7_Witness ==
    /\ d_called
    /\ LET b == baseline_of(d_values) IN
       /\ b.valid /\ b.mad4 > 0
       /\ WindowWithinBand(b)
       /\ \E i \in d_window : \A k \in i..(i + 2) :
             k \in d_window /\ 2 * d_values[k] > b.median2
    /\ d_result = <<>>

\* the points a returned segment covers
SegmentPoints(seg) ==
    { i \in d_window : /\ d_timestamps[i] >= seg.start_ts
                       /\ d_timestamps[i] <= seg.end_ts }

\* C9: a point whose signed deviation does not match the bad direction of
\* its metric is never bad, whatever its z: is_anomaly rejects it, no
\* returned segment covers it, and a window whose deviations are all in the
\* wrong direction yields no segment.
C9_WrongDirectionNeverBad ==
    (d_called /\ Len(d_values) >= window_minutes) =>
        LET b == baseline_of(d_values) IN
        /\ \A i \in d_window :
              ~RightDirection(b, i) => ~is_anomaly(d_values[i], b, d_metric)
        /\ \A n \in DOMAIN d_result :
              \A i \in SegmentPoints(d_result[n]) : RightDirection(b, i)
        /\ (\A i \in d_window : ~RightDirection(b, i)) => d_result = <<>>

\* five points at 10 on p95_latency_ms (up is bad): large z, no segment
C9_WitnessUp ==
    /\ d_called
    /\ d_metric = "p95_latency_ms"
    /\ \A i \in d_window : d_values[i] = 10
    /\ LET b == baseline_of(d_values) IN b.valid /\ b.mad4 > 0
    /\ d_result = <<>>

\* the values detect_anomalies_in_window takes the baseline from
BaselineValues ==
    Slice(d_values, 1, Min2(Len(d_values) - window_minutes,
                            lookback_days * 24 * 60))

\* C25: when all baseline values are equal (the scaled MAD is below the
\* 1e-6 floor), detect_anomalies_in_window returns no anomaly, whatever the
\* values of the evaluation window.
C25_FlatBaselineNoAnomaly ==
    (/\ d_called
     /\ Len(d_values) >= min_points + required_anomalies
     /\ Len(BaselineValues) >= min_points
     /\ \A i \in DOMAIN BaselineValues : BaselineValues[i] = BaselineValues[1])
    => d_result = <<>>

----------------------------------------------------------------------------
(* RCAWorker: rca/job.py, and rerun_rca of api/routers/incidents.py        *)

\* "DELETE FROM suspects WHERE incident_id = $1", the table left unchanged
delete_suspects_none(table, incident_id) == table

\* "DELETE FROM suspects WHERE incident_id = $1"
delete_suspects(table, incident_id) ==
    { s \in table : s.incident_id # incident_id }

\* ForeignKeyConstraint(['suspect_id'], ['suspects.id'], ondelete='CASCADE')
\* of table labels, the label rows left as they are
labels_cascade_none(label_table, suspect_table) == label_table

\* ForeignKeyConstraint(['suspect_id'], ['suspects.id'], ondelete='CASCADE')
\* of table labels: the label rows that stay when a DELETE leaves
\* suspect_table
labels_cascade(label_table, suspect_table) ==
    { l \in label_table : \E s \in suspect_table : s.id = l.suspect_id }

\* the same constraint at an INSERT INTO labels: the referenced row exists
suspect_referenced(suspect_table, suspect_id) ==
    \E s \in suspect_table : s.id = suspect_id

\* the row of one "INSERT INTO suspects ..."
suspect_row(suspect_id, incident_id, suspect) ==
    [id |-> suspect_id, incident_id |-> incident_id,
     suspect_type |-> suspect.suspect_type,
     suspect_key |-> suspect.suspect_key,
     rank |-> suspect.rank, score |-> suspect.score,
     evidence |-> suspect.evidence]

\* the message rerun_rca and the grouper put on rca.requests
rca_message(world, incident_id, origin) ==
    [incident_id |-> incident_id,
     start_ts |-> world.incidents[incident_id].start_ts,
     end_ts |-> world.incidents[incident_id].end_ts,
     origin |-> origin]

----------------------------------------------------------------------------
(* Specification SpecRca: stored inputs that stay as they are, the         *)
(* requests of the grouper waiting on the topic, re-runs from the API      *)

MaxReruns == 2
MaxTicks == 1
TickDays == 30

T1 == 10 * Day
T2 == T1 + 3 * Hour

StoredIncidents ==
    << [start_ts |-> T1, end_ts |-> T1 + 5 * Minute, services |-> {"payment"}],
       [start_ts |-> T2, end_ts |-> T2 + 10 * Minute,
        services |-> {"order", "payment"}] >>

\* no change recorded at all
StoredQuiet ==
    [incidents |-> StoredIncidents, deployments |-> {}, config_changes |-> {},
     flag_changes |-> {}, metrics |-> {}, logs |-> {}]

\* changes of all three kinds, with metrics and logs around the deployment
StoredRich ==
    [incidents |-> StoredIncidents,
     deployments |->
        { [id |-> "dep-1", ts |-> T1 - 30 * Minute, service |-> "payment",
           diff_summary |-> "Increase DB pool Timeout"],
          [id |-> "dep-2", ts |-> T2 - 60 * Minute, service |-> "order",
           diff_summary |-> "Bump version"] },
     config_changes |->
        { [id |-> "cfg-1", ts |-> T1 - 60 * Minute, service |-> "payment",
           diff_summary |-> "retry: 3 -> 5"] },
     flag_changes |->
        { [id |-> "flag-1", ts |-> T1 - 90 * Minute, service |-> NoService],
          [id |-> "flag-2", ts |-> T2 - 30 * Minute, service |-> "order"] },
     metrics |->
        { [service |-> "payment", metric |-> "p95_latency_ms",
           ts |-> T1 - 35 * Minute, value |-> 100],
          [service |-> "payment", metric |-> "p95_latency_ms",
           ts |-> T1 - 20 * Minute, value |-> 150],
          [service |-> "payment", metric |-> "p95_latency_ms",
           ts |-> T1, value |-> 250],
          [service |-> "payment", metric |-> "qps",
           ts |-> T1 - 35 * Minute, value |-> 50],
          [service |-> "payment", metric |-> "qps",
           ts |-> T1 - 10 * Minute, value |-> 50] },
     logs |->
        { [service |-> "payment", level |-> "ERROR", event |-> "HTTP_500",
           ts |-> T1 - 32 * Minute],
          [service |-> "payment", level |-> "ERROR", event |-> "DB_TIMEOUT",
           ts |-> T1 - 5 * Minute],
          [service |-> "payment", level |-> "ERROR", event |-> "DB_TIMEOUT",
           ts |-> T1 - 4 * Minute],
          [service |-> "payment", level |-> "ERROR", event |-> "HTTP_500",
           ts |-> T1 + Minute],
          [service |-> "payment", level |-> "INFO", event |-> "NONE",
           ts |-> T1 - 3 * Minute] }]

\* two deployments of one service at the same instant
StoredTwin ==
    [incidents |-> StoredIncidents,
     deployments |->
        { [id |-> "dep-a", ts |-> T1 - 30 * Minute, service |-> "payment",
           diff_summary |-> "Refactor"],
          [id |-> "dep-b", ts |-> T1 - 30 * Minute, service |-> "payment",
           diff_summary |-> "Cleanup"] },
     config_changes |-> {}, flag_changes |-> {}, metrics |-> {}, logs |-> {}]

StoredInputs == {StoredQuiet, StoredRich, StoredTwin}

InitRca ==
    /\ LabIdle
    /\ ActIdle
    /\ RpIdle
    /\ RtIdle
    /\ EvIdle
    /\ RkIdle
    /\ DetIdle
    /\ GrpIdle
    /\ WrkIdle
    /\ stored \in StoredInputs
    /\ rca_clock = T2 + Day
    /\ rca_queue = [ i \in DOMAIN stored.incidents |->
                       rca_message(stored, i, "grouper") ]
    /\ rca_pc = "idle"
    /\ rca_run = NoRun
    /\ rca_ranked = <<>>
    /\ rca_pos = 1
    /\ suspects = {}
    /\ uuid_next = 1
    /\ rca_done = <<>>
    /\ reruns = 0

\* POST /incidents/{incident_id}/rerun_rca for an incident that exists
RerunRca(incident_id) ==
    /\ reruns < MaxReruns
    /\ incident_id \in DOMAIN stored.incidents
    /\ rca_queue' = Append(rca_queue, rca_message(stored, incident_id, "rerun"))
    /\ reruns' = reruns + 1
    /\ UNCHANGED <<stored, rca_clock, rca_pc, rca_run, rca_ranked, rca_pos,
                   suspects, uuid_next, rca_done>>
    /\ UNCHANGED <<detVars, grpVars, wrkVars, rkVars, labVars, actVars, rpVars, rtVars, evVars>>

\* process_rca_request from the consumed message up to the call of
\* _store_suspects: affected services, candidates, features, ranking
RcaRank ==
    /\ rca_pc = "idle"
    /\ rca_queue # <<>>
    /\ LET message == Head(rca_queue) IN
       \E ranked \in ranked_lists(stored, rca_clock, message.incident_id,
                                  message.start_ts, message.end_ts) :
          /\ rca_queue' = Tail(rca_queue)
          /\ IF ranked = <<>>
             THEN /\ rca_pc' = "idle"
                  /\ UNCHANGED <<rca_run, rca_ranked>>
             ELSE /\ rca_pc' = "delete"
                  /\ rca_run' = message @@ [clock |-> rca_clock]
                  /\ rca_ranked' = ranked
    /\ UNCHANGED <<stored, rca_clock, rca_pos, suspects, uuid_next, rca_done,
                   reruns>>
    /\ UNCHANGED <<detVars, grpVars, wrkVars, rkVars, labVars, actVars, rpVars, rtVars, evVars>>

\* an await of process_rca_request raises before _store_suspects is called:
\* the except clause logs the error and the message is done with
RcaRaiseEarly ==
    /\ rca_pc = "idle"
    /\ rca_queue # <<>>
    /\ rca_queue' = Tail(rca_queue)
    /\ UNCHANGED <<stored, rca_clock, rca_pc, rca_run, rca_ranked, rca_pos,
                   suspects, uuid_next, rca_done, reruns>>
    /\ UNCHANGED <<detVars, grpVars, wrkVars, rkVars, labVars, actVars, rpVars, rtVars, evVars>>

\* _store_suspects: the DELETE statement, and with it the label rows that
\* reference the deleted suspects
RcaDelete ==
    /\ rca_pc = "delete"
    /\ suspects' = delete_suspects(suspects, rca_run.incident_id)
    /\ labels' = labels_cascade(labels, suspects')
    /\ rca_pos' = 1
    /\ rca_pc' = "insert"
    /\ UNCHANGED <<stored, rca_clock, rca_queue, rca_run, rca_ranked,
                   uuid_next, rca_done, reruns>>
    /\ UNCHANGED <<lb_requests, lb_next_id, lb_clock, lb_answered>>
    /\ UNCHANGED <<detVars, grpVars, wrkVars, rkVars, actVars, rpVars, rtVars, evVars>>

\* _store_suspects: one INSERT statement of the loop
RcaInsert ==
    /\ rca_pc = "insert"
    /\ rca_pos <= Len(rca_ranked)
    /\ suspects' = suspects \cup
           { suspect_row(uuid_next, rca_run.incident_id, rca_ranked[rca_pos]) }
    /\ uuid_next' = uuid_next + 1
    /\ rca_pos' = rca_pos + 1
    /\ UNCHANGED <<stored, rca_clock, rca_queue, rca_pc, rca_run, rca_ranked,
                   rca_done, reruns>>
    /\ UNCHANGED <<detVars, grpVars, wrkVars, rkVars, labVars, actVars, rpVars, rtVars, evVars>>

\* _store_suspects returns after the last INSERT; the run is over
RcaReturn ==
    /\ rca_pc = "insert"
    /\ rca_pos > Len(rca_ranked)
    /\ rca_done' = Append(rca_done, [run |-> rca_run, ranked |-> rca_ranked])
    /\ rca_pc' = "idle"
    /\ rca_run' = NoRun
    /\ rca_ranked' = <<>>
    /\ rca_pos' = 1
    /\ UNCHANGED <<stored, rca_clock, rca_queue, suspects, uuid_next, reruns>>
    /\ UNCHANGED <<detVars, grpVars, wrkVars, rkVars, labVars, actVars, rpVars, rtVars, evVars>>

\* a statement of _store_suspects raises (connection lost, statement
\* timeout): the except clause of process_rca_request logs the error, and
\* what the statements before it wrote stays, as no transaction was opened
RcaRaiseInStore ==
    /\ rca_pc \in {"delete", "insert"}
    /\ rca_pos <= Len(rca_ranked)
    /\ rca_pc' = "idle"
    /\ rca_run' = NoRun
    /\ rca_ranked' = <<>>
    /\ rca_pos' = 1
    /\ UNCHANGED <<stored, rca_clock, rca_queue, suspects, uuid_next,
                   rca_done, reruns>>
    /\ UNCHANGED <<detVars, grpVars, wrkVars, rkVars, labVars, actVars, rpVars, rtVars, evVars>>

\* time passes
ClockTick ==
    /\ rca_clock < T2 + Day + MaxTicks * TickDays * Day
    /\ rca_clock' = rca_clock + TickDays * Day
    /\ UNCHANGED <<stored, rca_queue, rca_pc, rca_run, rca_ranked, rca_pos,
                   suspects, uuid_next, rca_done, reruns>>
    /\ UNCHANGED <<detVars, grpVars, wrkVars, rkVars, labVars, actVars, rpVars, rtVars, evVars>>

NextRca ==
    \/ \E i \in DOMAIN stored.incidents : RerunRca(i)
    \/ RcaRank
    \/ RcaRaiseEarly
    \/ RcaDelete
    \/ RcaInsert
    \/ RcaReturn
    \/ RcaRaiseInStore
    \/ ClockTick

SpecRca == InitRca /\ [][NextRca]_vars

----------------------------------------------------------------------------
(* Properties of the RCA worker                                            *)

\* the rows of table suspects that belong to the incident
suspects_of(incident_id) == { s \in suspects : s.incident_id = incident_id }

\* a row without its id
WithoutId(s) ==
    [suspect_type |-> s.suspect_type, suspect_key |-> s.suspect_key,
     rank |-> s.rank, score |-> s.score, evidence |-> s.evidence]

\* the rows, without id, that storing the ranked list to the end writes
RowsOf(ranked) == { WithoutId(ranked[i]) : i \in DOMAIN ranked }

\* the positions in the history of the runs of the incident that stored
\* their whole list
DoneRuns(incident_id) ==
    { k \in DOMAIN rca_done : rca_done[k].run.incident_id = incident_id }

\* the rows the latest such run wrote; none before the first
PreviousRows(incident_id) ==
    IF DoneRuns(incident_id) = {} THEN {}
    ELSE RowsOf(rca_done[MaxOf(DoneRuns(incident_id))].ranked)

C3_AtomicReplace ==
    \A i \in DOMAIN stored.incidents :
        LET persisted == { WithoutId(s) : s \in suspects_of(i) } IN
        \/ persisted = PreviousRows(i)
        \/ /\ rca_run.incident_id = i
           /\ persisted = RowsOf(rca_ranked)

\* C4 (P4, idempotent re-run): two runs that rerun_rca started for the same
\* incident, over the same stored inputs and at the same reading of the
\* clock, persist the same rows (suspect_type, suspect_key, rank, score,
\* evidence).
C4_IdempotentRerun ==
    \A a \in DOMAIN rca_done : \A b \in DOMAIN rca_done :
        ( /\ rca_done[a].run.origin = "rerun"
          /\ rca_done[b].run.origin = "rerun"
          /\ rca_done[a].run.incident_id = rca_done[b].run.incident_id
          /\ rca_done[a].run.clock = rca_done[b].run.clock )
        => RowsOf(rca_done[a].ranked) = RowsOf(rca_done[b].ranked)

\* GET /incidents/{incident_id}/status for an incident that exists: the
\* handler only reads, so its reply is a function of table suspects
get_incident_status(incident_id) ==
    LET suspect_count == Cardinality(suspects_of(incident_id)) IN
    [incident_id    |-> incident_id,
     rca_status     |-> IF suspect_count = 0 THEN "not_started"
                        ELSE "completed",
     suspects_count |-> suspect_count]

\* C18: in every state GET /incidents/{id}/status reports in_progress while
\* a run for the incident is executing, completed when none is executing
\* and suspects are persisted, and not_started otherwise.
C18_StatusFollowsRun ==
    \A i \in DOMAIN stored.incidents :
        get_incident_status(i).rca_status =
            IF rca_pc # "idle" /\ rca_run.incident_id = i THEN "in_progress"
            ELSE IF suspects_of(i) # {} THEN "completed"
            ELSE "not_started"

\* the change rows of the three tables a run for the incident matches: in
\* [start - 2 h, end], of an affected service or, for flags, of no service
MatchedChanges(inc) ==
    LET lo == inc.start_ts - 2 * Hour
        hi == inc.end_ts
    IN  { r \in stored.deployments \cup stored.config_changes :
            r.ts >= lo /\ r.ts <= hi /\ r.service \in inc.services }
        \cup
        { r \in stored.flag_changes :
            /\ r.ts >= lo /\ r.ts <= hi
            /\ (r.service \in inc.services \/ r.service = NoService) }

\* C13: for every stored incident with affected services, read in any
\* order, generate_candidates returns at least one candidate; when no
\* change row matches it returns exactly one SERVICE candidate per affected
\* service, with suspect_key service_<name> and ts = incident start - 30
\* min, and when a change row matches it returns no SERVICE candidate.  The
\* list a run stores has the same suspects as one of the returned lists.
\* No action writes the stored inputs, so the first part is evaluated in the
\* states before the first run has ended.
C13_FallbackCandidates ==
    /\ rca_done = <<>> =>
         \A i \in DOMAIN stored.incidents :
         LET inc == stored.incidents[i] IN
         \A affected \in AnyOrder(inc.services) :
         \A cands \in generate_candidates(stored, inc.start_ts, inc.end_ts,
                                          affected) :
            /\ affected # <<>> => Len(cands) >= 1
            /\ MatchedChanges(inc) = {} =>
                  /\ Len(cands) = Cardinality(inc.services)
                  /\ \A svc \in inc.services :
                        \E k \in DOMAIN cands :
                            /\ cands[k].suspect_type = "SERVICE"
                            /\ cands[k].suspect_key = "service_" \o svc
                            /\ cands[k].ts = inc.start_ts - 30 * Minute
            /\ MatchedChanges(inc) # {} =>
                  /\ Len(cands) = Cardinality(MatchedChanges(inc))
                  /\ \A k \in DOMAIN cands : cands[k].suspect_type # "SERVICE"
    /\ rca_pc # "idle" =>
         LET inc == stored.incidents[rca_run.incident_id] IN
         \E affected \in AnyOrder(inc.services) :
         \E cands \in generate_candidates(stored, inc.start_ts, inc.end_ts,
                                          affected) :
            { <<cands[k].suspect_type, cands[k].suspect_key>> :
                k \in DOMAIN cands }
            = { <<rca_ranked[k].suspect_type, rca_ranked[k].suspect_key>> :
                k \in DOMAIN rca_ranked }

\* a run stores the two fallback candidates of an incident of two services
\* for which no change is recorded
C13_Witness ==
    /\ rca_pc = "insert"
    /\ MatchedChanges(stored.incidents[rca_run.incident_id]) = {}
    /\ Len(rca_ranked) = 2
    /\ \A k \in DOMAIN rca_ranked : rca_ranked[k].suspect_type = "SERVICE"

\* the suspect types and the suspect keys of the stored inputs, ascending
SuspectTypeOrder == <<"CONFIG", "DEPLOYMENT", "FLAG", "SERVICE">>

SuspectKeyOrder ==
    <<"cfg-1", "dep-1", "dep-2", "dep-a", "dep-b", "flag-1", "flag-2",
      "service_order", "service_payment">>

\* the position of x in the list
IndexIn(list, x) == CHOOSE k \in DOMAIN list : list[k] = x

\* (suspect_type, suspect_key) of a comes before that of b
TypeKeyBefore(a, b) ==
    LET ta == IndexIn(SuspectTypeOrder, a.suspect_type)
        tb == IndexIn(SuspectTypeOrder, b.suspect_type)
    IN  \/ ta < tb
        \/ /\ ta = tb
           /\ IndexIn(SuspectKeyOrder, a.suspect_key)
                 < IndexIn(SuspectKeyOrder, b.suspect_key)

\* C14: the list rank() returned to a run carries ranks 1..N in order, is
\* ordered by score descending, and orders candidates of equal score by
\* suspect_type, then suspect_key, whatever order they were generated in.
C14_DeterministicTieBreak ==
    /\ \A k \in DOMAIN rca_ranked : rca_ranked[k].rank = k
    /\ \A j \in DOMAIN rca_ranked : \A k \in DOMAIN rca_ranked :
          j < k =>
             \/ rca_ranked[j].score > rca_ranked[k].score
             \/ /\ rca_ranked[j].score = rca_ranked[k].score
                /\ TypeKeyBefore(rca_ranked[j], rca_ranked[k])

----------------------------------------------------------------------------
(* Specification SpecCandidates: the RCA worker over change catalogs with  *)
(* rows at the edges of the candidate window, outside it, and of services  *)
(* the incident does not affect                                            *)

CandDeployments ==
    { [id |-> "d-lo", ts |-> T1 - 120 * Minute, service |-> "payment",
       diff_summary |-> "Bump version"],
      [id |-> "d-early", ts |-> T1 - 121 * Minute, service |-> "payment",
       diff_summary |-> "Bump version"],
      [id |-> "d-other", ts |-> T1 - 30 * Minute, service |-> "order",
       diff_summary |-> "Bump version"],
      [id |-> "d-hi", ts |-> T1 + 5 * Minute, service |-> "payment",
       diff_summary |-> "Bump version"],
      [id |-> "d-late", ts |-> T1 + 6 * Minute, service |-> "payment",
       diff_summary |-> "Bump version"] }

CandConfigChanges ==
    { [id |-> "c-in", ts |-> T1 - 60 * Minute, service |-> "payment",
       diff_summary |-> "retry: 3 -> 5"],
      [id |-> "c-other", ts |-> T1 - 60 * Minute, service |-> "order",
       diff_summary |-> "retry: 3 -> 5"],
      [id |-> "c-two", ts |-> T2 - 30 * Minute, service |-> "order",
       diff_summary |-> "retry: 3 -> 5"] }

CandFlagChanges ==
    { [id |-> "f-null", ts |-> T1 - 90 * Minute, service |-> NoService],
      [id |-> "f-in", ts |-> T1 - 30 * Minute, service |-> "payment"],
      [id |-> "f-other", ts |-> T1 - 30 * Minute, service |-> "order"],
      [id |-> "f-late", ts |-> T1 + 6 * Minute, service |-> NoService] }

\* the catalogs: any of the rows above present or not
CandCatalogs ==
    { [incidents |-> StoredIncidents, deployments |-> d, config_changes |-> c,
       flag_changes |-> f, metrics |-> {}, logs |-> {}] :
      d \in SUBSET CandDeployments, c \in {{}, CandConfigChanges},
      f \in SUBSET CandFlagChanges }

InitCandidates ==
    /\ LabIdle
    /\ ActIdle
    /\ RpIdle
    /\ RtIdle
    /\ EvIdle
    /\ RkIdle
    /\ DetIdle
    /\ GrpIdle
    /\ WrkIdle
    /\ stored \in CandCatalogs
    /\ rca_clock = T2 + Day
    /\ rca_queue = [ i \in DOMAIN stored.incidents |->
                       rca_message(stored, i, "grouper") ]
    /\ rca_pc = "idle"
    /\ rca_run = NoRun
    /\ rca_ranked = <<>>
    /\ rca_pos = 1
    /\ suspects = {}
    /\ uuid_next = 1
    /\ rca_done = <<>>
    /\ reruns = 0

NextCandidates ==
    \/ RcaRank
    \/ RcaDelete
    \/ RcaInsert
    \/ RcaReturn

SpecCandidates == InitCandidates /\ [][NextCandidates]_vars

----------------------------------------------------------------------------
(* Properties of generate_candidates, checked under SpecCandidates         *)

\* the row lies in the candidate window of the run
InCandidateWindow(r, run) ==
    /\ r.ts >= run.start_ts - lookback_hours * Hour
    /\ r.ts <= run.end_ts + lookforward_hours * Hour

\* the services of the anomalies of the incident of the run
AffectedBy(run) == stored.incidents[run.incident_id].services

\* type and key of the catalog rows the run has to consider
ExpectedCandidates(run) ==
    { <<"DEPLOYMENT", r.id>> :
        r \in { x \in stored.deployments :
                  InCandidateWindow(x, run) /\ x.service \in AffectedBy(run) } }
    \cup { <<"CONFIG", r.id>> :
        r \in { x \in stored.config_changes :
                  InCandidateWindow(x, run) /\ x.service \in AffectedBy(run) } }
    \cup { <<"FLAG", r.id>> :
        r \in { x \in stored.flag_changes :
                  /\ InCandidateWindow(x, run)
                  /\ (x.service \in AffectedBy(run) \/ x.service = NoService) } }

\* positions of the candidates that are not the fallback
NonFallback(ranked) ==
    { i \in DOMAIN ranked : ranked[i].suspect_type # "SERVICE" }

\* C28: the non-fallback candidates of a run are the catalog rows with ts
\* in [incident start - lookback_hours, incident end + lookforward_hours]
\* whose service is affected (DEPLOYMENT, CONFIG) or is affected or missing
\* (FLAG): each of these rows once, and nothing else.
C28_CandidatesAreWindowRows ==
    rca_pc # "idle" =>
        /\ { <<rca_ranked[i].suspect_type, rca_ranked[i].suspect_key>> :
               i \in NonFallback(rca_ranked) } = ExpectedCandidates(rca_run)
        /\ Cardinality(NonFallback(rca_ranked))
               = Cardinality(ExpectedCandidates(rca_run))

\* a run took the rows at both edges of the window and the flag without a
\* service, and left out a row before the window, one after it and the
\* rows of a service the incident does not affect
C28_Witness ==
    /\ rca_pc = "delete"
    /\ rca_run.incident_id = 1
    /\ stored.deployments = CandDeployments
    /\ stored.flag_changes = CandFlagChanges
    /\ stored.config_changes = CandConfigChanges
    /\ { rca_ranked[i].suspect_key : i \in DOMAIN rca_ranked }
          = {"d-lo", "d-hi", "c-in", "f-null", "f-in"}

----------------------------------------------------------------------------
(* MLRanker: ml_ranker.py, and the artifact train.py writes                *)

\* feature_names of train_model, as pickled into the artifact
TrainerFeatureNames ==
    <<"is_before_incident", "time_proximity_score", "minutes_before_incident",
      "metric_delta_count", "max_metric_delta", "avg_metric_delta",
      "error_log_delta", "new_error_signature", "diff_keyword_hit",
      "diff_keyword_count", "service_incident_rate_30d">>

\* the default feature order of MLRanker._extract_features
DefaultFeatureNames ==
    <<"is_before_incident", "time_proximity_score", "minutes_before_incident",
      "metric_delta_count", "max_metric_delta", "avg_metric_delta",
      "error_log_delta", "new_error_signature", "diff_keyword_hit",
      "diff_keyword_count", "service_incident_rate_30d">>

\* the keys of the dict extract_features builds, in the order its update()
\* calls insert them
ExtractorFeatureNames ==
    <<"minutes_before_incident", "is_before_incident", "time_proximity_score",
      "metric_delta_count", "max_metric_delta", "avg_metric_delta",
      "error_log_delta", "new_error_signature", "diff_length",
      "diff_keyword_hit", "diff_keyword_count", "service_incident_rate_30d">>

\* list(evidence.keys()) of a dict extract_features built
evidence_keys(evidence) ==
    LET present(name) == name \in DOMAIN evidence IN
    SelectSeq(ExtractorFeatureNames, present)

\* a fitted LogisticRegression: one coefficient per column of the training
\* matrix, and the intercept (whole numbers here)
FittedModel ==
    [kind |-> "model", coef |-> <<2, 0, 0, 0, 0, 0, 0, 1, 1, 0, 0>>,
     intercept |-> -1]

\* the dict train_model pickles
TrainerArtifact ==
    [kind |-> "file", model |-> FittedModel,
     feature_names |-> TrainerFeatureNames]

\* s with the elements at positions i and j exchanged
Swapped(list, i, j) ==
    [ k \in DOMAIN list |->
        IF k = i THEN list[j] ELSE IF k = j THEN list[i] ELSE list[k] ]

\* an artifact of another build of the trainer: the same model, the names in
\* another order
ReorderedArtifact ==
    [kind |-> "file", model |-> FittedModel,
     feature_names |-> Swapped(TrainerFeatureNames, 1, 9)]

\* an artifact of another build of the trainer: a name less than columns
ShortArtifact ==
    [kind |-> "file", model |-> FittedModel,
     feature_names |-> SubSeq(TrainerFeatureNames, 1, 10)]

Artifacts == {NoFile, TrainerArtifact, ReorderedArtifact, ShortArtifact}

\* load_model: the state of the ranker after reading the file
load_model(file) ==
    IF file.kind = "file"
    THEN [model |-> file.model, feature_names |-> file.feature_names]
    ELSE [model |-> NoModel, feature_names |-> NoModel]

\* MLRanker._extract_features: the vector of one candidate (milli)
feature_vector(feature_names, evidence) ==
    LET names == IF feature_names = NoModel THEN DefaultFeatureNames
                 ELSE feature_names
    IN  [ k \in DOMAIN names |-> get(evidence, names[k], 0) ]

RECURSIVE Dot(_, _, _)
\* the sum of coef[k] * x[k] from position k on
Dot(coef, x, k) ==
    IF k > Len(coef) THEN 0 ELSE coef[k] * x[k] + Dot(coef, x, k + 1)

\* 1000 / (1 + exp(-z)), rounded, for the whole z the model can give
sigmoid(z) ==
    CASE z = -1000 -> 269
      [] z = 0     -> 500
      [] z = 1000  -> 731
      [] z = 2000  -> 881
      [] z = 3000  -> 953

\* predict_proba(X)[:, 1] of one row (milli)
predict_proba(model, x) ==
    sigmoid(1000 * model.intercept + Dot(model.coef, x, 1))

\* the learned branch of MLRanker.rank raises when the rows of X are not as
\* long as the model has coefficients
ml_rank_raises(model, feature_names, candidates) ==
    /\ model # NoModel
    /\ candidates # <<>>
    /\ Len(feature_vector(feature_names, <<>>)) # Len(model.coef)

\* MLRanker.rank when it returns
ml_rank(model, feature_names, candidates) ==
    IF model = NoModel THEN rank(candidates)
    ELSE LET scored == [ i \in DOMAIN candidates |->
                 [suspect_type |-> candidates[i].suspect_type,
                  suspect_key  |-> candidates[i].suspect_key,
                  evidence     |-> candidates[i].evidence,
                  score        |-> predict_proba(model,
                                      feature_vector(feature_names,
                                                     candidates[i].evidence))] ]
             sorted == SortByScoreFrom(<<>>, scored, 1)
         IN  [ i \in DOMAIN sorted |->
                 [suspect_type |-> sorted[i].suspect_type,
                  suspect_key  |-> sorted[i].suspect_key,
                  evidence     |-> sorted[i].evidence,
                  score        |-> sorted[i].score,
                  rank         |-> rank_of(i)] ]

----------------------------------------------------------------------------
(* Specification SpecRanker: the ranker started over an artifact and       *)
(* called on bounded candidate lists                                       *)

MaxCands == 2          \* candidates in one call of rank

\* the row of the table with the given id
RowById(table, id) == CHOOSE r \in table : r.id = id

\* a candidate as process_rca_request hands it to rank: the candidate of
\* generate_candidates with the evidence extract_features computes for it
\* over the stored inputs, for incident 1 with affected services payment
WithEvidence(world, candidate) ==
    [suspect_type |-> candidate.suspect_type,
     suspect_key  |-> candidate.suspect_key,
     evidence     |-> extract_features(world, candidate, T1, T1 + 5 * Minute,
                                       <<"payment">>, T2 + Day)]

\* a deployment rolled out three minutes into incident 1
LateDeployment ==
    [id |-> "dep-late", ts |-> T1 + 3 * Minute, service |-> "payment",
     diff_summary |-> ""]

\* evidence with deltas beyond the caps of the score
SpikeEvidence ==
    [minutes_before_incident |-> 60000, is_before_incident |-> 1000,
     time_proximity_score |-> 0, metric_delta_count |-> 1000,
     max_metric_delta |-> 3000, avg_metric_delta |-> 3000,
     error_log_delta |-> 15000, new_error_signature |-> 0,
     diff_length |-> 0, diff_keyword_hit |-> 0,
     service_incident_rate_30d |-> 1000]

\* candidates rank is called on: those of the stored inputs, one whose
\* evidence has a single key, and one without evidence
CandidatePool ==
    { WithEvidence(StoredRich, ChangeCandidate("DEPLOYMENT",
                       RowById(StoredRich.deployments, "dep-1"))),
      WithEvidence(StoredRich, ChangeCandidate("CONFIG",
                       RowById(StoredRich.config_changes, "cfg-1"))),
      WithEvidence(StoredRich, FlagCandidate(
                       RowById(StoredRich.flag_changes, "flag-1"))),
      WithEvidence(StoredQuiet, ServiceCandidate("payment", T1)),
      WithEvidence(StoredRich, ChangeCandidate("DEPLOYMENT", LateDeployment)),
      [suspect_type |-> "DEPLOYMENT", suspect_key |-> "dep-spike",
       evidence |-> SpikeEvidence],
      [suspect_type |-> "CONFIG", suspect_key |-> "cfg-partial",
       evidence |-> [is_before_incident |-> 1000]],
      [suspect_type |-> "FLAG", suspect_key |-> "flag-bare",
       evidence |-> <<>>] }

\* the lists of one to MaxCands different candidates
CandidateLists ==
    UNION { { q \in [1..n -> CandidatePool] :
                \A i \in 1..n : \A j \in 1..n : i # j => q[i] # q[j] } :
            n \in 1..MaxCands }

InitRanker ==
    /\ LabIdle
    /\ ActIdle
    /\ RpIdle
    /\ RtIdle
    /\ EvIdle
    /\ DetIdle
    /\ GrpIdle
    /\ WrkIdle
    /\ RcaIdle
    /\ model_file \in Artifacts
    /\ rk_started = FALSE
    /\ rk_read = NoFile
    /\ rk_model = NoModel
    /\ rk_feature_names = NoModel
    /\ rk_candidates = <<>>
    /\ rk_ranked = <<>>
    /\ rk_raised = FALSE

\* train_model writes its artifact to model_path
TrainerSave ==
    /\ model_file # TrainerArtifact
    /\ model_file' = TrainerArtifact
    /\ UNCHANGED <<rk_started, rk_read, rk_model, rk_feature_names,
                   rk_candidates, rk_ranked, rk_raised>>
    /\ UNCHANGED <<detVars, grpVars, wrkVars, rcaVars, labVars, actVars, rpVars, rtVars, evVars>>

\* the worker starts: MLRanker.__init__ runs load_model
RankerStart ==
    /\ rk_started' = TRUE
    /\ rk_read' = model_file
    /\ rk_model' = load_model(model_file).model
    /\ rk_feature_names' = load_model(model_file).feature_names
    /\ rk_candidates' = <<>>
    /\ rk_ranked' = <<>>
    /\ rk_raised' = FALSE
    /\ UNCHANGED model_file
    /\ UNCHANGED <<detVars, grpVars, wrkVars, rcaVars, labVars, actVars, rpVars, rtVars, evVars>>

\* MLRanker.rank(candidates)
RankCall(candidates) ==
    /\ rk_started
    /\ rk_candidates' = candidates
    /\ IF ml_rank_raises(rk_model, rk_feature_names, candidates)
       THEN /\ rk_raised' = TRUE
            /\ rk_ranked' = <<>>
       ELSE /\ rk_raised' = FALSE
            /\ rk_ranked' = ml_rank(rk_model, rk_feature_names, candidates)
    /\ UNCHANGED <<model_file, rk_started, rk_read, rk_model,
                   rk_feature_names>>
    /\ UNCHANGED <<detVars, grpVars, wrkVars, rcaVars, labVars, actVars, rpVars, rtVars, evVars>>

NextRanker ==
    \/ TrainerSave
    \/ RankerStart
    \/ \E candidates \in CandidateLists : RankCall(candidates)

SpecRanker == InitRanker /\ [][NextRanker]_vars

----------------------------------------------------------------------------
(* Properties of the ranker, checked under SpecRanker                      *)

\* evidence[name], and 0 for a name the evidence does not have
FeatureOrZero(evidence, name) ==
    IF name \in DOMAIN evidence THEN evidence[name] ELSE 0

\* the six weighted terms of the heuristic score (milli); the time-decay
\* term only with is_before_incident = 1, and 0 without the minutes
SixTermScore(evidence) ==
    LET is_before == FeatureOrZero(evidence, "is_before_incident")
        err       == FeatureOrZero(evidence, "error_log_delta") \div 10
    IN    3 * is_before
        + (IF is_before = 1000 /\ "minutes_before_incident" \in DOMAIN evidence
           THEN 2 * exp_decay(Abs(evidence["minutes_before_incident"]))
           ELSE 0)
        + (5 * Min2(1000, FeatureOrZero(evidence, "max_metric_delta"))) \div 2
        + 2 * (IF err < 0 THEN 0 ELSE IF err > 1000 THEN 1000 ELSE err)
        + (3 * FeatureOrZero(evidence, "new_error_signature")) \div 2
        + FeatureOrZero(evidence, "diff_keyword_hit")

\* C15: the score the heuristic ranker gives a candidate is the sum of the
\* six weighted terms, the time-decay term added only when
\* is_before_incident = 1, a feature absent from the evidence adding 0.
C15_HeuristicScore ==
    (rk_started /\ rk_model = NoModel) =>
        \A k \in DOMAIN rk_ranked :
            rk_ranked[k].score = SixTermScore(rk_ranked[k].evidence)

\* the feature names the ranker builds its vectors from
UsedFeatureNames ==
    IF rk_feature_names = NoModel THEN DefaultFeatureNames
    ELSE rk_feature_names

\* C16 (P3, evidence order): once the ranker has loaded the artifact the
\* trainer wrote, the names stored in the artifact, the names the ranker
\* builds its vectors from and the ordered names of every complete feature
\* map the extractor produced are the same list, element by element.
C16_FeatureOrder ==
    (rk_started /\ rk_read = TrainerArtifact) =>
        /\ rk_read.feature_names = UsedFeatureNames
        /\ ExtractorFeatureNames = rk_read.feature_names
        /\ \A k \in DOMAIN rk_candidates :
             LET names == evidence_keys(rk_candidates[k].evidence) IN
             Len(names) = Len(ExtractorFeatureNames) =>
                names = rk_read.feature_names

\* C17: a ranker that found no artifact at load, or one whose feature_names
\* are not the expected list, answers every call of rank with the scores
\* and ranks of the heuristic ranker.
C17_RejectedModelIsHeuristic ==
    ( /\ rk_started
      /\ rk_candidates # <<>>
      /\ \/ rk_read = NoFile
         \/ rk_read.feature_names # DefaultFeatureNames )
    => /\ ~rk_raised
       /\ rk_ranked = rank(rk_candidates)

----------------------------------------------------------------------------
(* label_suspect: api/routers/incidents.py                                 *)

NoLabel == [id |-> 0]

\* "SELECT id, label FROM labels WHERE incident_id = $1 AND suspect_id = $2
\*  ORDER BY created_at DESC LIMIT 1": the rows the query may return, NoLabel
\* standing for no row
existing_label(table, incident_id, suspect_id) ==
    LET rows == { l \in table : /\ l.incident_id = incident_id
                                /\ l.suspect_id = suspect_id }
    IN  IF rows = {} THEN {NoLabel}
        ELSE { l \in rows : \A o \in rows : o.created_at <= l.created_at }

\* "UPDATE labels SET label = $1, labeler = $2, notes = $3,
\*  created_at = now() WHERE id = $4"
update_label(table, id, args, clock) ==
    { IF l.id = id
      THEN [l EXCEPT !.label = args.label, !.labeler = args.labeler,
                     !.notes = args.notes, !.created_at = clock]
      ELSE l : l \in table }

\* the row of "INSERT INTO labels (incident_id, suspect_id, label, labeler,
\* notes)", id and created_at from the column defaults
label_row(id, args, clock) ==
    [id |-> id, incident_id |-> args.incident_id,
     suspect_id |-> args.suspect_id, label |-> args.label,
     labeler |-> args.labeler, notes |-> args.notes, created_at |-> clock]

----------------------------------------------------------------------------
(* Specification SpecLabel: label submissions for the suspects of a        *)
(* finished RCA run, the handlers interleaving at their awaits             *)

MaxSubmissions == 2    \* calls of POST /incidents/{id}/label

\* the list the run for incident 1 ranks over the rich stored inputs
FirstRanked ==
    CHOOSE r \in ranked_lists(StoredRich, T2 + Day, 1, T1, T1 + 5 * Minute) :
        TRUE

\* the RCA worker after its first run: the message of incident 1 consumed
\* and its suspects stored
AfterFirstRun ==
    /\ stored = StoredRich
    /\ rca_clock = T2 + Day
    /\ rca_queue = <<rca_message(StoredRich, 2, "grouper")>>
    /\ rca_pc = "idle"
    /\ rca_run = NoRun
    /\ rca_ranked = <<>>
    /\ rca_pos = 1
    /\ suspects = { suspect_row(k, 1, FirstRanked[k]) :
                      k \in DOMAIN FirstRanked }
    /\ uuid_next = Len(FirstRanked) + 1
    /\ rca_done = << [run |-> rca_message(StoredRich, 1, "grouper")
                                 @@ [clock |-> T2 + Day],
                      ranked |-> FirstRanked] >>
    /\ reruns = 0

\* suspect ids a client submits: two that exist and one that does not
SubmittedSuspects == {1, 2, 9}

Labelers == {"alice", "bob"}

\* the arguments of a submission
Submissions ==
    { [incident_id |-> 1, suspect_id |-> sid, label |-> lab,
       labeler |-> who, notes |-> "by " \o who] :
      sid \in SubmittedSuspects, lab \in {0, 1}, who \in Labelers }

InitLabel ==
    /\ DetIdle
    /\ GrpIdle
    /\ WrkIdle
    /\ RkIdle
    /\ AfterFirstRun
    /\ ActIdle
    /\ RpIdle
    /\ RtIdle
    /\ EvIdle
    /\ labels = {}
    /\ lb_requests = <<>>
    /\ lb_next_id = 1
    /\ lb_clock = 0
    /\ lb_answered = <<>>

\* a client calls POST /incidents/{incident_id}/label
LabelSubmit(args) ==
    /\ Len(lb_requests) < MaxSubmissions
    /\ lb_requests' = Append(lb_requests,
                             [args |-> args, pc |-> "read", existing |-> NoLabel])
    /\ UNCHANGED <<labels, lb_next_id, lb_clock, lb_answered>>
    /\ UNCHANGED <<detVars, grpVars, wrkVars, rcaVars, rkVars, actVars, rpVars, rtVars, evVars>>

\* the reads of the handler: the incident, the suspect (404 when it is not
\* one of the incident), the existing label
LabelRead(r) ==
    /\ r \in DOMAIN lb_requests
    /\ lb_requests[r].pc = "read"
    /\ LET args == lb_requests[r].args IN
       IF \E sus \in suspects : /\ sus.id = args.suspect_id
                                /\ sus.incident_id = args.incident_id
       THEN \E found \in existing_label(labels, args.incident_id,
                                        args.suspect_id) :
               lb_requests' = [lb_requests EXCEPT ![r].pc = "write",
                                                  ![r].existing = found]
       ELSE lb_requests' = [lb_requests EXCEPT ![r].pc = "not_found"]
    /\ UNCHANGED <<labels, lb_next_id, lb_clock, lb_answered>>
    /\ UNCHANGED <<detVars, grpVars, wrkVars, rcaVars, rkVars, actVars, rpVars, rtVars, evVars>>

\* the write of the handler: UPDATE of the row it read, or INSERT; an
\* INSERT that references a suspect row deleted since the read violates
\* the foreign key, and the handler answers 500
LabelWrite(r) ==
    /\ r \in DOMAIN lb_requests
    /\ lb_requests[r].pc = "write"
    /\ lb_clock' = lb_clock + 1
    /\ LET args == lb_requests[r].args
           found == lb_requests[r].existing
       IN  IF found # NoLabel
           THEN /\ labels' = update_label(labels, found.id, args, lb_clock')
                /\ lb_requests' = [lb_requests EXCEPT ![r].pc = "ok"]
                /\ lb_answered' = Append(lb_answered, args)
                /\ UNCHANGED lb_next_id
           ELSE IF suspect_referenced(suspects, args.suspect_id)
           THEN /\ labels' = labels \cup {label_row(lb_next_id, args, lb_clock')}
                /\ lb_requests' = [lb_requests EXCEPT ![r].pc = "ok"]
                /\ lb_answered' = Append(lb_answered, args)
                /\ lb_next_id' = lb_next_id + 1
           ELSE /\ lb_requests' = [lb_requests EXCEPT ![r].pc = "error"]
                /\ UNCHANGED <<labels, lb_next_id, lb_answered>>
    /\ UNCHANGED <<detVars, grpVars, wrkVars, rcaVars, rkVars, actVars, rpVars, rtVars, evVars>>

NextLabel ==
    \/ \E args \in Submissions : LabelSubmit(args)
    \/ \E r \in 1..MaxSubmissions : LabelRead(r)
    \/ \E r \in 1..MaxSubmissions : LabelWrite(r)

SpecLabel == InitLabel /\ [][NextLabel]_vars

----------------------------------------------------------------------------
(* Properties of label_suspect, checked under SpecLabel                    *)

\* the label rows of the pair
labels_of(incident_id, suspect_id) ==
    { l \in labels : l.incident_id = incident_id /\ l.suspect_id = suspect_id }

\* the positions in the history of the answered submissions for the pair
AnsweredFor(incident_id, suspect_id) ==
    { k \in DOMAIN lb_answered : /\ lb_answered[k].incident_id = incident_id
                                /\ lb_answered[k].suspect_id = suspect_id }

\* C19: once a submission for an (incident, suspect) pair was answered, the
\* pair has exactly one label row, and the row holds the label, labeler and
\* notes of the submission answered last, however the handlers interleaved.
C19_OneLabelPerPair ==
    \A sus \in suspects :
        LET answered == AnsweredFor(sus.incident_id, sus.id) IN
        answered # {} =>
            /\ Cardinality(labels_of(sus.incident_id, sus.id)) = 1
            /\ \A l \in labels_of(sus.incident_id, sus.id) :
                  LET last == lb_answered[MaxOf(answered)] IN
                  /\ l.label = last.label
                  /\ l.labeler = last.labeler
                  /\ l.notes = last.notes

----------------------------------------------------------------------------
(* ActivityLogger: api/services/activity_logger.py, and the router         *)
(* api/routers/activity.py                                                 *)

None == "None"

EVENT_TYPES ==
    [metrics_ingested      |-> "Metrics ingested",
     anomaly_detected      |-> "Anomaly detected",
     incident_created      |-> "Incident created",
     rca_started           |-> "RCA analysis started",
     suspects_generated    |-> "Suspects generated",
     suspect_score_updated |-> "Suspect score updated"]

ttl_seconds == 3600

\* the clock runs in ticks of half a second
TicksPerSecond == 2

MaxActClock == 1    \* ticks the clock runs for

Digits == <<"0", "1", "2", "3", "4", "5", "6", "7", "8", "9">>

\* datetime.isoformat() of the UTC time t ticks after midnight: the
\* fraction is printed only when the microsecond is not 0
isoformat(t) ==
    LET sec == t \div TicksPerSecond IN
    "2024-01-01T00:00:" \o Digits[(sec \div 10) + 1] \o Digits[(sec % 10) + 1]
        \o (IF t % TicksPerSecond = 0 THEN "" ELSE ".500000") \o "+00:00"

\* the times the clock can show, one second of margin included
ActTimes == 0..(MaxActClock + TicksPerSecond)

\* None where a datetime is expected
NoTime == -1

\* the strings of the times
IsoStrings == [ t \in ActTimes |-> isoformat(t) ]

\* datetime.fromisoformat: the time a string denotes, NoTime for ValueError
fromisoformat(str) ==
    IF \E t \in ActTimes : IsoStrings[t] = str
    THEN CHOOSE t \in ActTimes : IsoStrings[t] = str
    ELSE NoTime

\* since.replace('Z', '+00:00'); the strings read here hold no Z but a last
replace_Z(str) ==
    IF Len(str) > 0 /\ SubSeq(str, Len(str), Len(str)) = "Z"
    THEN SubSeq(str, 1, Len(str) - 1) \o "+00:00"
    ELSE str

\* datetime.timestamp(), in ticks
timestamp(t) == t

\* the characters of a timestamp, by code point
CharOrder == <<"+", "-", ".", "0", "1", "2", "3", "4", "5", "6", "7", "8", "9", ":", "T">>

\* ord(c) as a rank among the characters of a timestamp
CharRank(c) == CHOOSE k \in DOMAIN CharOrder : CharOrder[k] = c

\* Python's a < b on strings
RECURSIVE str_lt_from(_, _, _)
str_lt_from(a, b, i) ==
    IF i > Len(b) THEN FALSE
    ELSE IF i > Len(a) THEN TRUE
    ELSE IF SubSeq(a, i, i) = SubSeq(b, i, i) THEN str_lt_from(a, b, i + 1)
    ELSE CharRank(SubSeq(a, i, i)) < CharRank(SubSeq(b, i, i))

str_lt(a, b) == str_lt_from(a, b, 1)

\* json.dumps(event): the values in the order of the keys
json_dumps(event) ==
    <<event.ts, event.type, event.service, event.message>>

\* json.loads(event_json)
json_loads(member) ==
    [ts |-> member[1], type |-> member[2], service |-> member[3],
     message |-> member[4]]

\* ZADD key score member: a member the set holds already takes the score
zadd(store, member, score) ==
    { r \in store : r.member # member }
        \cup { [member |-> member, score |-> score] }

\* ActivityLogger.log_event, the two now() of it read as ts_now and score_now
log_event(store, event_type, service, ts_now, score_now) ==
    IF event_type \notin DOMAIN EVENT_TYPES THEN store
    ELSE zadd(store,
              json_dumps([ts |-> isoformat(ts_now), type |-> event_type,
                          service |-> service,
                          message |-> EVENT_TYPES[event_type]]),
              timestamp(score_now))

\* the rows of a sorted set as lists by score ascending, rows of one score
\* in any order
RECURSIVE ByScore(_)
ByScore(rows) ==
    IF rows = {} THEN { <<>> }
    ELSE UNION { { <<r>> \o q : q \in ByScore(rows \ {r}) } :
                 r \in { m \in rows : \A o \in rows : m.score <= o.score } }

\* ZRANGEBYSCORE key min max LIMIT start num: the lists it may return
zrangebyscore(store, min, max, start, num) ==
    LET rows == { r \in store : r.score >= min /\ r.score <= max }
        n    == Cardinality(rows)
    IN  { [ i \in 1..Max2(0, Min2(num, n - start)) |-> q[start + i].member ] :
          q \in ByScore(rows) }

\* the filter loop of get_events: events appended until there are limit
RECURSIVE filter_events(_, _, _, _, _, _)
filter_events(events, events_data, i, limit, event_type, service) ==
    IF i > Len(events_data) THEN events
    ELSE LET event == json_loads(events_data[i]) IN
         IF event_type \notin {None, ""} /\ event.type # event_type
         THEN filter_events(events, events_data, i + 1, limit, event_type, service)
         ELSE IF service \notin {None, ""} /\ event.service # service
         THEN filter_events(events, events_data, i + 1, limit, event_type, service)
         ELSE IF Len(events) + 1 >= limit THEN Append(events, event)
         ELSE filter_events(Append(events, event), events_data, i + 1,
                            limit, event_type, service)

RECURSIVE InsertOldestFirst(_, _)
InsertOldestFirst(s, e) ==
    IF s = <<>> THEN <<e>>
    ELSE IF ~ str_lt(e.ts, s[Len(s)].ts) THEN Append(s, e)
    ELSE Append(InsertOldestFirst(SubSeq(s, 1, Len(s) - 1), e), s[Len(s)])

RECURSIVE InsertNewestFirst(_, _)
InsertNewestFirst(s, e) ==
    IF s = <<>> THEN <<e>>
    ELSE IF ~ str_lt(s[Len(s)].ts, e.ts) THEN Append(s, e)
    ELSE Append(InsertNewestFirst(SubSeq(s, 1, Len(s) - 1), e), s[Len(s)])

RECURSIVE SortEventsFrom(_, _, _, _)
SortEventsFrom(acc, s, i, reverse) ==
    IF i > Len(s) THEN acc
    ELSE SortEventsFrom(IF reverse THEN InsertNewestFirst(acc, s[i])
                        ELSE InsertOldestFirst(acc, s[i]),
                        s, i + 1, reverse)

\* events.sort(key=lambda x: x.get("ts", "")), the order of equal keys kept
sort_events_ascending(events) == SortEventsFrom(<<>>, events, 1, FALSE)

\* events.sort(key=lambda x: x.get("ts", ""), reverse=True)
sort_events(events) == SortEventsFrom(<<>>, events, 1, TRUE)

\* "min_score" of get_events
min_score(since, clock) ==
    IF since # NoTime THEN timestamp(since)
    ELSE timestamp(clock) - ttl_seconds * TicksPerSecond

\* ActivityLogger.get_events: the lists it may return
logger_get_events(store, since, limit, event_type, service, clock) ==
    { sort_events(filter_events(<<>>, events_data, 1, limit, event_type, service)) :
      events_data \in zrangebyscore(store, min_score(since, clock),
                                    timestamp(clock), 0, limit * 2) }

\* GET /activity/events: the replies the router may give
get_events(store, args, clock) ==
    LET since_dt == IF args.since \in {None, ""} THEN NoTime
                    ELSE fromisoformat(replace_Z(args.since))
    IN  IF args.since \notin {None, ""} /\ since_dt = NoTime
        THEN { [status |-> 400] }
        ELSE { [status |-> 200, events |-> events, count |-> Len(events)] :
               events \in logger_get_events(store, since_dt, args.limit,
                                            args.event_type, args.service,
                                            clock) }

----------------------------------------------------------------------------
(* Specification SpecActivity: events logged and read as the clock runs    *)

MaxEvents == 2    \* events the sorted set holds
MaxLimit == 2     \* largest limit of a read

\* event types logged: two of EVENT_TYPES and one that is not
LoggedTypes == {"anomaly_detected", "rca_started", "heartbeat"}

LoggedServices == {None, "checkout"}

\* the query strings of a read
ReadArgs ==
    [since      : {None, "yesterday", "2024-01-01T00:00:00.500000Z"},
     limit      : 0..MaxLimit,
     event_type : {None, "anomaly_detected"},
     service    : {None, "checkout"}]

InitActivity ==
    /\ DetIdle
    /\ GrpIdle
    /\ WrkIdle
    /\ RcaIdle
    /\ RkIdle
    /\ LabIdle
    /\ ActIdle
    /\ RpIdle
    /\ RtIdle
    /\ EvIdle

\* a call of log_event; elapsed ticks pass between its two now()
LogEvent(event_type, service, elapsed) ==
    /\ Cardinality(act_events) < MaxEvents
    /\ act_clock + elapsed <= MaxActClock
    /\ act_events' = log_event(act_events, event_type, service,
                               act_clock, act_clock + elapsed)
    /\ act_clock' = act_clock + elapsed
    /\ UNCHANGED act_reply
    /\ UNCHANGED <<detVars, grpVars, wrkVars, rcaVars, rkVars, labVars, rpVars, rtVars, evVars>>

\* half a second passes
ActTick ==
    /\ act_clock < MaxActClock
    /\ act_clock' = act_clock + 1
    /\ UNCHANGED <<act_events, act_reply>>
    /\ UNCHANGED <<detVars, grpVars, wrkVars, rcaVars, rkVars, labVars, rpVars, rtVars, evVars>>

\* a client calls GET /activity/events
GetEvents(args) ==
    /\ act_reply' \in get_events(act_events, args, act_clock)
    /\ UNCHANGED <<act_events, act_clock>>
    /\ UNCHANGED <<detVars, grpVars, wrkVars, rcaVars, rkVars, labVars, rpVars, rtVars, evVars>>

NextActivity ==
    \/ \E event_type \in LoggedTypes, service \in LoggedServices,
          elapsed \in 0..1 : LogEvent(event_type, service, elapsed)
    \/ ActTick
    \/ \E args \in ReadArgs : GetEvents(args)

SpecActivity == InitActivity /\ [][NextActivity]_vars

----------------------------------------------------------------------------
(* Properties of get_events, checked under SpecActivity                    *)

\* the lower end of the range a read asks for: since, and the last hour
\* when no since is given
SinceOf(args, clock) ==
    IF args.since \in {None, ""} THEN clock - ttl_seconds * TicksPerSecond
    ELSE fromisoformat(replace_Z(args.since))

\* the events of the store that a read with args at clock may return
Eligible(store, args, clock) ==
    { r \in store :
        /\ r.score >= SinceOf(args, clock) /\ r.score <= clock
        /\ args.event_type \notin {None, ""} => r.member[2] = args.event_type
        /\ args.service \notin {None, ""} => r.member[3] = args.service }

\* a reply of events is one the claim allows for args over store at clock
GoodReply(store, args, clock, reply) ==
    reply.status = 200 =>
        /\ \A i \in DOMAIN reply.events :
              \E r \in Eligible(store, args, clock) :
                  /\ r.member[1] = reply.events[i].ts
                  /\ r.member[2] = reply.events[i].type
                  /\ r.member[3] = reply.events[i].service
        /\ Len(reply.events) <= args.limit
        /\ \A i \in DOMAIN reply.events : \A j \in DOMAIN reply.events :
              i < j => fromisoformat(reply.events[i].ts)
                           >= fromisoformat(reply.events[j].ts)

----------------------------------------------------------------------------
(* extract_features while a store raises: feature_extractor.py             *)

\* the stores extract_features reads: metrics_timeseries and logs of
\* ClickHouse, the incident tables of Postgres
FeatureStores == {"metrics", "logs", "incidents"}

\* _extract_correlation_features, the queries raising when metrics is down:
\* "except Exception" returns the three features as 0.0
correlation_features_soft(world, candidate, incident_end, affected_list, down) ==
    IF /\ "metrics" \in down
       /\ candidate.suspect_type = "DEPLOYMENT"
       /\ candidate.service \in Range(affected_list)
    THEN [metric_delta_count |-> 0, max_metric_delta |-> 0,
          avg_metric_delta |-> 0]
    ELSE correlation_features(world, candidate, incident_end, affected_list)

\* _extract_log_features, the queries raising when logs is down
log_features_soft(world, candidate, incident_end, down) ==
    IF "logs" \in down /\ candidate.suspect_type = "DEPLOYMENT"
    THEN [error_log_delta |-> 0, new_error_signature |-> 0]
    ELSE log_features(world, candidate, incident_end)

\* the except clause returning the rate of one incident
historical_features_one(world, candidate, clock, down) ==
    IF "incidents" \in down /\ candidate.service # NoService
    THEN [service_incident_rate_30d |-> 1000]
    ELSE historical_features(world, candidate, clock)

\* _extract_historical_features, the query raising when incidents is down
historical_features_soft(world, candidate, clock, down) ==
    IF "incidents" \in down /\ candidate.service # NoService
    THEN [service_incident_rate_30d |-> 0]
    ELSE historical_features(world, candidate, clock)

\* extract_features with the stores of down raising on every query
extract_features_soft(world, candidate, incident_start, incident_end, affected_list, clock, down) ==
    update(update(update(update(
        time_features(candidate, incident_start),
        correlation_features_soft(world, candidate, incident_end,
                                  affected_list, down)),
        log_features_soft(world, candidate, incident_end, down)),
        diff_features(candidate)),
        historical_features_soft(world, candidate, clock, down))

\* the candidate lists with evidence one RCA run may hand to the ranker
\* while the stores of down raise
featured_lists(world, clock, incident_id, incident_start, incident_end, down) ==
    LET services == IF incident_id \in DOMAIN world.incidents
                    THEN world.incidents[incident_id].services ELSE {}
    IN  UNION { { [ i \in DOMAIN cands |->
                      [suspect_type |-> cands[i].suspect_type,
                       suspect_key  |-> cands[i].suspect_key,
                       evidence     |-> extract_features_soft(world, cands[i],
                                           incident_start, incident_end,
                                           affected, clock, down)] ] :
                  cands \in generate_candidates(world, incident_start,
                                                incident_end, affected) } :
                affected \in AnyOrder(services) }

----------------------------------------------------------------------------
(* Specification SpecSoft: RCA runs during which some of the stores the    *)
(* feature extractor reads raise on every query                            *)

InitSoft == InitRca

\* process_rca_request up to the call of _store_suspects, the stores of
\* down raising inside extract_features
RcaRankSoft(down) ==
    /\ rca_pc = "idle"
    /\ rca_queue # <<>>
    /\ LET message == Head(rca_queue) IN
       \E featured \in featured_lists(stored, rca_clock, message.incident_id,
                                      message.start_ts, message.end_ts, down) :
          /\ rca_queue' = Tail(rca_queue)
          /\ IF featured = <<>>
             THEN /\ rca_pc' = "idle"
                  /\ UNCHANGED <<rca_run, rca_ranked>>
             ELSE /\ rca_pc' = "delete"
                  /\ rca_run' = message @@ [clock |-> rca_clock, down |-> down]
                  /\ rca_ranked' = rank(featured)
    /\ UNCHANGED <<stored, rca_clock, rca_pos, suspects, uuid_next, rca_done,
                   reruns>>
    /\ UNCHANGED <<detVars, grpVars, wrkVars, rkVars, labVars, actVars, rpVars, rtVars, evVars>>

NextSoft ==
    \/ \E down \in SUBSET FeatureStores : RcaRankSoft(down)
    \/ RcaDelete
    \/ RcaInsert
    \/ RcaReturn

SpecSoft == InitSoft /\ [][NextSoft]_vars

----------------------------------------------------------------------------
(* Properties of the fail-soft extraction, checked under SpecSoft          *)

\* the features read from the store
FeaturesOf(store) ==
    CASE store = "metrics" ->
            {"metric_delta_count", "max_metric_delta", "avg_metric_delta"}
      [] store = "logs" -> {"error_log_delta", "new_error_signature"}
      [] store = "incidents" -> {"service_incident_rate_30d"}

\* the evidence has 0 for the features of the stores that were down where it
\* has them, and for every other feature what the extraction without a
\* failure gives
SoftEvidence(evidence, healthy, down) ==
    LET lost == UNION { FeaturesOf(store) : store \in down } IN
    /\ DOMAIN healthy \subseteq DOMAIN evidence
    /\ \A name \in DOMAIN evidence :
          IF name \in lost THEN evidence[name] = 0
          ELSE name \in DOMAIN healthy /\ evidence[name] = healthy[name]

\* the ranked list has every candidate of the list, once, with evidence as
\* SoftEvidence says, and ranks 1..n by score
SoftRanked(ranked, healthy, down) ==
    /\ Len(ranked) = Len(healthy)
    /\ \A i \in DOMAIN healthy :
          \E k \in DOMAIN ranked :
              /\ ranked[k].suspect_type = healthy[i].suspect_type
              /\ ranked[k].suspect_key = healthy[i].suspect_key
              /\ SoftEvidence(ranked[k].evidence, healthy[i].evidence, down)
    /\ \A k \in DOMAIN ranked :
          /\ ranked[k].rank = k
          /\ ranked[k].score = compute_score(ranked[k].evidence)
          /\ k < Len(ranked) => ranked[k].score >= ranked[k + 1].score

\* C30: whatever stores raise while the features of a run are extracted,
\* the features of those stores are 0.0, the other features of every
\* candidate are as without the failure, all candidates are ranked, and a
\* run that has returned has stored its whole list.
C30_FailSoft ==
    /\ rca_pc # "idle" =>
          \E healthy \in featured_lists(stored, rca_run.clock,
                              rca_run.incident_id, rca_run.start_ts,
                              rca_run.end_ts, {}) :
              SoftRanked(rca_ranked, healthy, rca_run.down)
    /\ \A k \in DOMAIN rca_done :
          (\A j \in DOMAIN rca_done :
               rca_done[j].run.incident_id = rca_done[k].run.incident_id
                   => j <= k)
          => { WithoutId(row) : row \in suspects_of(rca_done[k].run.incident_id) }
                 = RowsOf(rca_done[k].ranked)

\* a run over the rich inputs during which all three stores raised has
\* returned, the deployment it ranked having lost the evidence the healthy
\* stores give it
C30_Witness ==
    /\ stored = StoredRich
    /\ \E k \in DOMAIN rca_done :
          /\ rca_done[k].run.down = FeatureStores
          /\ rca_done[k].run.incident_id = 1
          /\ \E i \in DOMAIN rca_done[k].ranked :
                /\ rca_done[k].ranked[i].suspect_key = "dep-1"
                /\ rca_done[k].ranked[i].evidence.error_log_delta = 0
                /\ rca_done[k].ranked[i].evidence.service_incident_rate_30d = 0
          /\ Cardinality(suspects_of(1)) = Len(rca_done[k].ranked)
    /\ \E r \in ranked_lists(StoredRich, T2 + Day, 1, T1, T1 + 5 * Minute) :
          \E i \in DOMAIN r : /\ r[i].suspect_key = "dep-1"
                               /\ r[i].evidence.error_log_delta > 0

----------------------------------------------------------------------------
(* replay_incident: scripts/replay_incident.py, over the stores the live   *)
(* pipeline has written                                                    *)

\* process_metric_point and check_anomalies for one message, on the worker
\* state w = [buffer, db]; the worker's clock reads the ts of the message
feed_point(w, msg) ==
    LET key    == <<msg.service, msg.metric>>
        old    == IF key \in DOMAIN w.buffer THEN w.buffer[key] ELSE <<>>
        pruned == prune(Append(old, <<msg.ts, msg.value>>), msg.ts - 24 * Hour)
        data   == IF Len(pruned) >= MinBufferPoints
                  THEN sort_by_ts(pruned) ELSE pruned
    IN  [buffer |-> (key :> data) @@ w.buffer,
         db     |-> IF Len(pruned) >= MinBufferPoints
                    THEN check_anomalies(w.db, key, data, msg.ts) ELSE w.db]

RECURSIVE FeedFrom(_, _, _)
\* the worker state after the messages from position n on
FeedFrom(w, msgs, n) ==
    IF n > Len(msgs) THEN w ELSE FeedFrom(feed_point(w, msgs[n]), msgs, n + 1)

\* the tables and topics before the worker first ran
EmptyDb ==
    [anomalies |-> <<>>, incidents |-> <<>>, links |-> {},
     detected |-> <<>>, requests |-> <<>>]

\* the rows metrics_timeseries has of one key before the time at: a point a
\* minute over the 20 minutes before, at the nominal values
NominalRows(service, metric, at) ==
    [ i \in 1..MinBufferPoints |->
        [service |-> service, metric |-> metric,
         ts |-> at - (MinBufferPoints + 1 - i) * Minute,
         value |-> AltBaseline(MinBufferPoints)[i]] ]

\* three messages of the key from the time at on, a minute apart
SpikeRows(service, metric, at, spike) ==
    [ i \in 1..required_anomalies |->
        [service |-> service, metric |-> metric,
         ts |-> at + (i - 1) * Minute, value |-> spike] ]

\* load_historical_metrics: the buffer of the rows of the last hour
loaded_buffer(rows) ==
    LET keys == { <<rows[i].service, rows[i].metric>> : i \in DOMAIN rows }
        Of(key) == LET Is(r) == <<r.service, r.metric>> = key
                   IN  SelectSeq(rows, Is)
    IN  [ key \in keys |-> [ i \in DOMAIN Of(key) |->
                               <<Of(key)[i].ts, Of(key)[i].value>> ] ]

\* the tables after a worker that starts over db and the rows of the last
\* hour has consumed the messages
worker_run(db, rows, msgs) ==
    FeedFrom([buffer |-> loaded_buffer(rows), db |-> db], msgs, 1).db

\* the tables after a latency spike of payment at T1
LiveDbOne ==
    worker_run(EmptyDb, NominalRows("payment", "p95_latency_ms", T1),
               SpikeRows("payment", "p95_latency_ms", T1, 120))

\* the same, the worker started again before a drop of the qps of order at T2
LiveDbTwo ==
    worker_run(LiveDbOne, NominalRows("order", "qps", T2),
               SpikeRows("order", "qps", T2, 10))

\* the rows metrics_timeseries has after both runs of the worker, in the
\* order of "ORDER BY service, metric, ts"
RowsOne ==
    NominalRows("payment", "p95_latency_ms", T1)
        \o SpikeRows("payment", "p95_latency_ms", T1, 120)

RowsTwo ==
    NominalRows("order", "qps", T2) \o SpikeRows("order", "qps", T2, 10)
        \o RowsOne

\* the stored inputs as the RCA worker and the replay read them: the
\* incidents with the services of their linked anomalies, the change catalog,
\* the rows of metrics_timeseries, the logs
stored_of(db, rows, catalog) ==
    [incidents |->
        [ i \in DOMAIN db.incidents |->
            [start_ts |-> db.incidents[i].start_ts,
             end_ts   |-> db.incidents[i].end_ts,
             services |-> { db.anomalies[k].service :
                              k \in { n \in DOMAIN db.anomalies :
                                        <<db.incidents[i].id, db.anomalies[n].id>>
                                            \in db.links } }] ],
     deployments |-> catalog.deployments,
     config_changes |-> catalog.config_changes,
     flag_changes |-> catalog.flag_changes,
     metrics |-> Range(rows),
     timeseries |-> rows,
     logs |-> catalog.logs]

\* one incident in the 24 hours of the stored rows, or two
ReplayWorlds ==
    { stored_of(LiveDbOne, RowsOne, catalog) : catalog \in StoredInputs }
        \cup { stored_of(LiveDbTwo, RowsTwo, catalog) : catalog \in StoredInputs }

RECURSIVE KeysFrom(_, _, _)
\* the keys of time_series in the order the rows insert them
KeysFrom(rows, n, seen) ==
    IF n > Len(rows) THEN <<>>
    ELSE LET key == <<rows[n].service, rows[n].metric>> IN
         IF key \in seen THEN KeysFrom(rows, n + 1, seen)
         ELSE <<key>> \o KeysFrom(rows, n + 1, seen \cup {key})

RECURSIVE DetectedFrom(_, _, _)
\* "for (service, metric), data in time_series.items():" the dicts appended
\* to detected_anomalies from the n-th key on
DetectedFrom(rows, keys, n) ==
    IF n > Len(keys) THEN <<>>
    ELSE LET Is(r)  == <<r.service, r.metric>> = keys[n]
             data   == SelectSeq(rows, Is)
             values == [ i \in DOMAIN data |-> data[i].value ]
             timestamps == [ i \in DOMAIN data |-> data[i].ts ]
             segs   == detect_anomalies_in_window(values, timestamps, keys[n][2])
         IN  [ i \in DOMAIN segs |->
                 [service |-> keys[n][1], metric |-> keys[n][2],
                  start_ts |-> segs[i].start_ts, end_ts |-> segs[i].end_ts,
                  score |-> segs[i].score] ]
             \o DetectedFrom(rows, keys, n + 1)

\* str(true_cause['suspect_id'])
str_uuid(id) == "uuid-" \o ToString(id)

\* "i + 1" of the first suspect whose suspect_key is the true cause id, 0
\* for None
true_cause_rank(ranked, true_cause_id) ==
    LET hits == { i \in DOMAIN ranked : ranked[i].suspect_key = true_cause_id }
    IN  IF hits = {} THEN 0 ELSE CHOOSE i \in hits : \A j \in hits : i <= j

\* a value that may be None: None is the empty tuple
Null == <<>>

Some(v) == <<v>>

\* "5. Computing metrics": precision_at_1, precision_at_3 and mrr, in
\* thousandths, from the rank found (0: not found)
ranking_metrics(true_cause_id, found_rank) ==
    IF true_cause_id = None
    THEN [precision_at_1 |-> Null, precision_at_3 |-> Null, mrr |-> Null]
    ELSE IF found_rank # 0
    THEN [precision_at_1 |-> Some(IF found_rank = 1 THEN 1000 ELSE 0),
          precision_at_3 |-> Some(IF found_rank <= 3 THEN 1000 ELSE 0),
          mrr |-> Some(1000 \div found_rank)]
    ELSE [precision_at_1 |-> Some(0), precision_at_3 |-> Some(0),
          mrr |-> Some(0)]

\* "Time to detect": minutes, in thousandths, from incident_start to the
\* first detected anomaly
time_to_detect(detected, incident_start) ==
    IF detected = <<>> THEN Null
    ELSE LET first_anomaly_time ==
                 CHOOSE t \in { detected[i].start_ts : i \in DOMAIN detected } :
                     \A i \in DOMAIN detected : t <= detected[i].start_ts
         IN  Some(((first_anomaly_time - incident_start) * 1000) \div Minute)

\* what replay_incident may compute for the incident at the time clock: the
\* list ranked, the rank of the true cause and the dict it returns;
\* analysed is FALSE for the early return of "if not incidents"
replay_incident(world, label_table, incident_id, clock) ==
    LET incident == world.incidents[incident_id]
        true_causes == { str_uuid(l.suspect_id) :
                           l \in { r \in label_table :
                                     /\ r.incident_id = incident_id
                                     /\ r.label = 1 } }
        metrics_window_start == incident.start_ts - 24 * Hour
        metrics_window_end   == incident.end_ts
        InWindow(r) == /\ r.ts >= metrics_window_start
                       /\ r.ts <= metrics_window_end
        metrics_data == SelectSeq(world.timeseries, InWindow)
        detected_anomalies ==
            DetectedFrom(metrics_data, KeysFrom(metrics_data, 1, {}), 1)
        anomaly_dicts ==
            [ i \in DOMAIN detected_anomalies |->
                [id |-> i - 1] @@ detected_anomalies[i] ]
        regrouped == group_anomalies(anomaly_dicts, 1)
    IN  IF regrouped = <<>>
        THEN { [incident_id |-> incident_id, analysed |-> FALSE,
                ranked |-> <<>>, true_cause_rank |-> 0,
                results |-> [incident_id |-> incident_id,
                             precision_at_1 |-> Some(0),
                             precision_at_3 |-> Some(0),
                             mrr |-> Some(0),
                             time_to_detect |-> Null]] }
        ELSE LET first == regrouped[1]
                 services == { detected_anomalies[i].service :
                                 i \in DOMAIN detected_anomalies }
                 Ranked(cands, affected) ==
                     rank([ i \in DOMAIN cands |->
                              [suspect_type |-> cands[i].suspect_type,
                               suspect_key  |-> cands[i].suspect_key,
                               evidence |-> extract_features(world, cands[i],
                                               first.start_ts, first.end_ts,
                                               affected, clock)] ])
             IN  UNION { UNION { { [incident_id |-> incident_id,
                                    analysed |-> TRUE,
                                    ranked |-> Ranked(cands, affected),
                                    true_cause_rank |->
                                        true_cause_rank(Ranked(cands, affected),
                                                        cause),
                                    results |->
                                        [incident_id |-> incident_id,
                                         time_to_detect_minutes |->
                                             time_to_detect(detected_anomalies,
                                                            incident.start_ts),
                                         num_anomalies |-> Len(detected_anomalies),
                                         num_candidates |-> Len(cands),
                                         num_suspects |-> Len(cands)]
                                        @@ ranking_metrics(cause,
                                               true_cause_rank(
                                                   Ranked(cands, affected),
                                                   cause))] :
                                   cause \in IF true_causes = {} THEN {None}
                                             ELSE true_causes } :
                                 cands \in generate_candidates(world,
                                              first.start_ts, first.end_ts,
                                              affected) } :
                         affected \in AnyOrder(services) }

----------------------------------------------------------------------------
(* Properties of extract_features, checked under SpecCandidates            *)

\* the features that come from the metric and log stores
StoreFeatures ==
    {"metric_delta_count", "max_metric_delta", "avg_metric_delta",
     "error_log_delta", "new_error_signature"}

\* the features that come from the diff_summary of the change
DiffFeatures == {"diff_length", "diff_keyword_hit", "diff_keyword_count"}

\* C29: the evidence of every candidate of a run, of whatever suspect_type
\* and with or without a diff_summary, has all twelve feature names, with 0
\* for the features that do not apply to it or whose source field is
\* missing.
C29_AllFeaturesPresent ==
    \A i \in DOMAIN rca_ranked :
        LET evidence == rca_ranked[i].evidence
            kind     == rca_ranked[i].suspect_type
        IN  /\ DOMAIN evidence = Range(ExtractorFeatureNames)
            /\ kind # "DEPLOYMENT" =>
                  \A name \in StoreFeatures : evidence[name] = 0
            /\ kind \in {"FLAG", "SERVICE"} =>
                  \A name \in DiffFeatures : evidence[name] = 0

----------------------------------------------------------------------------
(* Specification SpecReplay: the RCA worker runs over what the detector    *)
(* worker stored, an operator labels the top suspect, the replay script is *)
(* run for an incident                                                     *)

InitReplay ==
    /\ DetIdle
    /\ GrpIdle
    /\ WrkIdle
    /\ RkIdle
    /\ LabIdle
    /\ ActIdle
    /\ RpIdle
    /\ RtIdle
    /\ EvIdle
    /\ stored \in ReplayWorlds
    /\ rca_clock = T2 + Day
    /\ rca_queue = [ i \in DOMAIN stored.incidents |->
                       rca_message(stored, i, "grouper") ]
    /\ rca_pc = "idle"
    /\ rca_run = NoRun
    /\ rca_ranked = <<>>
    /\ rca_pos = 1
    /\ suspects = {}
    /\ uuid_next = 1
    /\ rca_done = <<>>
    /\ reruns = 0

\* POST /incidents/{incident_id}/label with label 1 for the suspect ranked
\* first by a finished run, the incident having no label yet
ReplayLabel(s) ==
    /\ s \in suspects
    /\ s.rank = 1
    /\ rca_pc = "idle"
    /\ \A l \in labels : l.incident_id # s.incident_id
    /\ labels' = labels \cup
         { label_row(lb_next_id,
                     [incident_id |-> s.incident_id, suspect_id |-> s.id,
                      label |-> 1, labeler |-> "alice", notes |-> ""],
                     lb_clock + 1) }
    /\ lb_next_id' = lb_next_id + 1
    /\ lb_clock' = lb_clock + 1
    /\ UNCHANGED <<lb_requests, lb_answered>>
    /\ UNCHANGED <<detVars, grpVars, wrkVars, rcaVars, rkVars, actVars, rpVars, rtVars, evVars>>

\* python replay_incident.py <incident_id>
ReplayRun(incident_id) ==
    /\ incident_id \in DOMAIN stored.incidents
    /\ rca_pc = "idle"
    /\ rp_result' \in replay_incident(stored, labels, incident_id, rca_clock)
    /\ UNCHANGED <<detVars, grpVars, wrkVars, rcaVars, rkVars, labVars, actVars, rtVars, evVars>>

NextReplay ==
    \/ RcaRank
    \/ RcaRaiseEarly
    \/ RcaDelete
    \/ RcaInsert
    \/ RcaReturn
    \/ RcaRaiseInStore
    \/ ClockTick
    \/ \E s \in suspects : ReplayLabel(s)
    \/ \E i \in DOMAIN stored.incidents : ReplayRun(i)

SpecReplay == InitReplay /\ [][NextReplay]_vars

----------------------------------------------------------------------------
(* Properties of the replay, checked under SpecReplay                      *)

\* the keys and scores of a ranked list, in its order
keys_and_scores(ranked) ==
    [ i \in DOMAIN ranked |->
        [suspect_key |-> ranked[i].suspect_key, score |-> ranked[i].score] ]

\* the incident has a label, and the run that last finished for it stored
\* the suspects the table has
LabeledAndStored(incident_id) ==
    /\ \E l \in labels : l.incident_id = incident_id
    /\ DoneRuns(incident_id) # {}
    /\ RowsOf(rca_done[MaxOf(DoneRuns(incident_id))].ranked)
           = { WithoutId(s) : s \in suspects_of(incident_id) }

\* C21: the replay of a labeled incident computes the ranked suspects the
\* live RCA worker persisted for it: the same suspect keys in the same rank
\* order with the same scores.
C21_ReplayParity ==
    (rp_result # NoReplay /\ LabeledAndStored(rp_result.incident_id)) =>
        /\ rp_result.analysed
        /\ keys_and_scores(rp_result.ranked)
             = keys_and_scores(
                 rca_done[MaxOf(DoneRuns(rp_result.incident_id))].ranked)

----------------------------------------------------------------------------
\* Topic rca.requests and the consumer group rca-worker.  Both senders call
\* send('rca.requests', value) without a key, so the partitioner of the
\* producer picks the partition of each message; every RCAWorker process
\* joins the group rca-worker, the partitions are dealt to the members in
\* turn, and each process handles its messages one at a time.

MaxWorkers == 2

MaxPartitions == 2

MaxRouted == 3

RoutedIncidents == {1, 2}

\* the member of the group that owns partition p
partition_owner(p, workers) == ((p - 1) % workers) + 1

\* the partitions a message without key can be appended to
partition_for(message, partitions) == 1..partitions

SentBy(sender) ==
    {rt_sent[k].incident_id : k \in {j \in 1..Len(rt_sent) : rt_sent[j].sender = sender}}

InitRoute ==
    /\ DetIdle
    /\ GrpIdle
    /\ WrkIdle
    /\ RcaIdle
    /\ RkIdle
    /\ LabIdle
    /\ ActIdle
    /\ RpIdle
    /\ EvIdle
    /\ rt_workers \in 1..MaxWorkers
    /\ \E partitions \in 1..MaxPartitions :
          rt_topic = [p \in 1..partitions |-> <<>>]
    /\ rt_running = [w \in 1..rt_workers |-> 0]
    /\ rt_sent = <<>>

RouteSend(message, sender) ==
    /\ Len(rt_sent) < MaxRouted
    /\ \E p \in partition_for(message, Len(rt_topic)) :
          rt_topic' = [rt_topic EXCEPT ![p] = Append(@, message)]
    /\ rt_sent' = Append(rt_sent, [incident_id |-> message.incident_id,
                                   sender |-> sender])
    /\ UNCHANGED <<rt_workers, rt_running>>
    /\ UNCHANGED <<detVars, grpVars, wrkVars, rcaVars, rkVars, labVars, actVars, rpVars, evVars>>

\* group_and_create_incidents: one request for each incident it inserted
GrouperSend(i) ==
    /\ i \notin SentBy("grouper")
    /\ RouteSend([incident_id |-> i], "grouper")

\* POST /incidents/{id}/rerun_rca for an incident that is in the table
RerunSend(i) ==
    /\ i \in SentBy("grouper")
    /\ RouteSend([incident_id |-> i], "rerun")

\* RCAWorker.run of process w: the next message of one of its partitions
WorkerTake(w) ==
    /\ rt_running[w] = 0
    /\ \E p \in DOMAIN rt_topic :
          /\ partition_owner(p, rt_workers) = w
          /\ rt_topic[p] # <<>>
          /\ rt_running' = [rt_running EXCEPT ![w] = Head(rt_topic[p]).incident_id]
          /\ rt_topic' = [rt_topic EXCEPT ![p] = Tail(@)]
    /\ UNCHANGED <<rt_workers, rt_sent>>
    /\ UNCHANGED <<detVars, grpVars, wrkVars, rcaVars, rkVars, labVars, actVars, rpVars, evVars>>

\* process_rca_request of process w returns
WorkerFinish(w) ==
    /\ rt_running[w] # 0
    /\ rt_running' = [rt_running EXCEPT ![w] = 0]
    /\ UNCHANGED <<rt_workers, rt_topic, rt_sent>>
    /\ UNCHANGED <<detVars, grpVars, wrkVars, rcaVars, rkVars, labVars, actVars, rpVars, evVars>>

NextRoute ==
    \/ \E i \in RoutedIncidents : GrouperSend(i)
    \/ \E i \in RoutedIncidents : RerunSend(i)
    \/ \E w \in 1..MaxWorkers : w \in DOMAIN rt_running /\ WorkerTake(w)
    \/ \E w \in 1..MaxWorkers : w \in DOMAIN rt_running /\ WorkerFinish(w)

SpecRoute == InitRoute /\ [][NextRoute]_vars

\* C31: at most one RCA run executes for a given incident_id at any time:
\* no two workers of the group are inside process_rca_request for the
\* same incident.
C31_OneRunPerIncident ==
    \A w1 \in DOMAIN rt_running : \A w2 \in DOMAIN rt_running :
        (w1 # w2 /\ rt_running[w1] # 0) => rt_running[w1] # rt_running[w2]

----------------------------------------------------------------------------
(* Specification SpecFeedback: label submissions interleaved with re-runs  *)
(* of RCA, and the rows rca/train.py reads                                  *)

\* values of the query parameter label: int, no bounds declared
FeedbackLabels == {1, 2}

\* the arguments of a submission for the top suspect the client was shown
FeedbackSubmissions ==
    { [incident_id |-> s.incident_id, suspect_id |-> s.id, label |-> lab,
       labeler |-> "alice", notes |-> ""] :
      s \in { x \in suspects : x.rank = 1 }, lab \in FeedbackLabels }

\* NULL in the column evidence of suspects; _store_suspects always writes
\* the JSON text of a dict
NullEvidence == [null |-> TRUE]

\* "SELECT s.evidence, l.label FROM suspects s JOIN labels l
\*  ON s.id = l.suspect_id WHERE s.evidence IS NOT NULL"
training_rows(suspect_table, label_table) ==
    { [label_id |-> p[2].id, evidence |-> p[1].evidence,
       label |-> p[2].label] :
      p \in { q \in suspect_table \X label_table :
                /\ q[1].id = q[2].suspect_id
                /\ q[1].evidence # NullEvidence } }

InitFeedback == InitLabel

\* one client: a submission after the one before it was answered
FeedbackSubmit(args) ==
    /\ \A r \in DOMAIN lb_requests : lb_requests[r].pc \notin {"read", "write"}
    /\ LabelSubmit(args)

NextFeedback ==
    \/ \E args \in FeedbackSubmissions : FeedbackSubmit(args)
    \/ \E r \in 1..MaxSubmissions : LabelRead(r)
    \/ \E r \in 1..MaxSubmissions : LabelWrite(r)
    \/ \E i \in DOMAIN stored.incidents : RerunRca(i)
    \/ RcaRank
    \/ RcaDelete
    \/ RcaInsert
    \/ RcaReturn

SpecFeedback == InitFeedback /\ [][NextFeedback]_vars

\* C32: every label the trainer reads as a training target is 0 or 1: no
\* submission stores another value.
C32_TrainingLabelsBinary ==
    \A row \in training_rows(suspects, labels) : row.label \in {0, 1}

\* C38: every persisted label references a suspect row that exists and
\* belongs to the label's incident, whatever the interleaving of label
\* submissions and RCA runs; the labels of the suspects a re-run replaced
\* are gone.
C38_LabelsReferenceSuspects ==
    \A l \in labels :
        \E s \in suspects : /\ s.id = l.suspect_id
                            /\ s.incident_id = l.incident_id

\* a submission was answered for a suspect that a re-run has replaced since,
\* and a label of a current suspect is stored
C38_Witness ==
    /\ \E k \in DOMAIN lb_answered :
          ~suspect_referenced(suspects, lb_answered[k].suspect_id)
    /\ labels # {}
    /\ Len(rca_done) > 1

----------------------------------------------------------------------------
(* Properties of the metrics of replay_incident, checked under SpecReplay  *)

\* the suspect rows of the incident that carry a label 1
LabeledCauses(incident_id) ==
    { s \in suspects : \E l \in labels : /\ l.suspect_id = s.id
                                         /\ l.incident_id = incident_id
                                         /\ l.label = 1 }

\* the ranks at which the replayed ranking has the suspect
RanksOf(ranked, s) ==
    { i \in DOMAIN ranked : /\ ranked[i].suspect_type = s.suspect_type
                            /\ ranked[i].suspect_key = s.suspect_key }

\* C33: for an incident with a labeled true cause, the replay returns
\* MRR = 1/r, Precision@1 = 1 iff r = 1 and Precision@3 = 1 iff r <= 3 for
\* the rank r of the labeled suspect in the replayed ranking, and three
\* zeros only when the suspect is not in the ranking.
C33_MetricsFromRank ==
    ( /\ rp_result # NoReplay
      /\ rp_result.analysed
      /\ rp_result.results.mrr # Null )
    => \A s \in LabeledCauses(rp_result.incident_id) :
          LET hits == RanksOf(rp_result.ranked, s)
              r    == CHOOSE i \in hits : \A j \in hits : i <= j
              m    == rp_result.results
          IN  IF hits = {}
              THEN /\ m.mrr = Some(0)
                   /\ m.precision_at_1 = Some(0)
                   /\ m.precision_at_3 = Some(0)
              ELSE /\ m.mrr = Some(1000 \div r)
                   /\ m.precision_at_1 = Some(IF r = 1 THEN 1000 ELSE 0)
                   /\ m.precision_at_3 = Some(IF r <= 3 THEN 1000 ELSE 0)

----------------------------------------------------------------------------
(* evaluate_all_incidents: scripts/evaluate.py, over the stores of the     *)
(* live pipeline and of seed_incident                                      *)

\* two incidents of the worker, the rows of the spike of payment missing
\* from metrics_timeseries: seed_incident inserts incidents and anomalies
\* whatever the metrics rows are
SeededWorlds ==
    { stored_of(LiveDbTwo,
                NominalRows("order", "qps", T2)
                    \o SpikeRows("order", "qps", T2, 10)
                    \o NominalRows("payment", "p95_latency_ms", T1),
                catalog) : catalog \in {StoredRich} }

EvaluateWorlds ==
    { stored_of(LiveDbTwo, RowsTwo, catalog) : catalog \in {StoredRich} }
        \cup SeededWorlds

\* sum(values) / len(values) if values else None
mean(values) ==
    IF values = <<>> THEN Null
    ELSE Some(SumOf(DOMAIN values, values) \div Len(values))

\* [r[key] for r in results_list if r[key] is not None]
non_null(results_list, key) ==
    LET Has(r) == r[key] # Null
        kept   == SelectSeq(results_list, Has)
    IN  [ i \in DOMAIN kept |-> kept[i][key][1] ]

\* "Aggregate metrics": r['time_to_detect_minutes'] raises KeyError for a
\* dict of the early return of replay_incident, which has time_to_detect
aggregate(results_list) ==
    IF \E i \in DOMAIN results_list :
          "time_to_detect_minutes" \notin DOMAIN results_list[i]
    THEN [status |-> "raised", error |-> "KeyError"]
    ELSE [status |-> "returned",
          value |->
            [num_incidents |-> Len(results_list),
             precision_at_1 |-> mean(non_null(results_list, "precision_at_1")),
             precision_at_3 |-> mean(non_null(results_list, "precision_at_3")),
             mrr |-> mean(non_null(results_list, "mrr")),
             avg_time_to_detect_minutes |->
                 mean(non_null(results_list, "time_to_detect_minutes"))]]

\* what evaluate_all_incidents may collect and return: <<results_list,
\* outcome>>, the incidents in the order of the SELECT DISTINCT
evaluate_all_incidents(world, label_table, clock) ==
    LET labeled == { l.incident_id : l \in label_table } IN
    IF labeled = {}
    THEN { << <<>>, [status |-> "returned",
                     value |-> [num_incidents |-> 0,
                                precision_at_1 |-> Null,
                                precision_at_3 |-> Null,
                                mrr |-> Null,
                                avg_time_to_detect |-> Null]] >> }
    ELSE UNION {
           LET Replayed(k) ==
                   { r.results :
                       r \in replay_incident(world, label_table,
                                             incident_ids[k], clock) }
               lists == { q \in [DOMAIN incident_ids ->
                                   UNION { Replayed(k) :
                                             k \in DOMAIN incident_ids }] :
                            \A k \in DOMAIN incident_ids : q[k] \in Replayed(k) }
           IN  { <<results_list, aggregate(results_list)>> :
                   results_list \in lists } :
           incident_ids \in AnyOrder(labeled) }

InitEvaluate ==
    /\ DetIdle
    /\ GrpIdle
    /\ WrkIdle
    /\ RkIdle
    /\ LabIdle
    /\ ActIdle
    /\ RpIdle
    /\ RtIdle
    /\ EvIdle
    /\ stored \in EvaluateWorlds
    /\ rca_clock = T2 + Day
    /\ rca_queue = [ i \in DOMAIN stored.incidents |->
                       rca_message(stored, i, "grouper") ]
    /\ rca_pc = "idle"
    /\ rca_run = NoRun
    /\ rca_ranked = <<>>
    /\ rca_pos = 1
    /\ suspects = {}
    /\ uuid_next = 1
    /\ rca_done = <<>>
    /\ reruns = 0

\* POST /incidents/{incident_id}/label for a stored suspect of an incident
\* that has no label yet
EvaluateLabel(s, lab) ==
    /\ s \in suspects
    /\ rca_pc = "idle"
    /\ \A l \in labels : l.incident_id # s.incident_id
    /\ labels' = labels \cup
         { label_row(lb_next_id,
                     [incident_id |-> s.incident_id, suspect_id |-> s.id,
                      label |-> lab, labeler |-> "alice", notes |-> ""],
                     lb_clock + 1) }
    /\ lb_next_id' = lb_next_id + 1
    /\ lb_clock' = lb_clock + 1
    /\ UNCHANGED <<lb_requests, lb_answered>>
    /\ UNCHANGED <<detVars, grpVars, wrkVars, rcaVars, rkVars, actVars, rpVars, rtVars, evVars>>

\* python evaluate.py
EvaluateAll ==
    /\ rca_pc = "idle"
    /\ \E run \in evaluate_all_incidents(stored, labels, rca_clock) :
          /\ ev_results' = run[1]
          /\ ev_return' = run[2]
    /\ UNCHANGED <<detVars, grpVars, wrkVars, rcaVars, rkVars, labVars, actVars, rpVars, rtVars>>

NextEvaluate ==
    \/ RcaRank
    \/ RcaDelete
    \/ RcaInsert
    \/ RcaReturn
    \/ \E s \in suspects : \E lab \in {0, 1} : EvaluateLabel(s, lab)
    \/ EvaluateAll

SpecEvaluate == InitEvaluate /\ [][NextEvaluate]_vars

\* the mean the aggregate is to hold for a metric: over the results whose
\* value under one of the keys is not None
MeanOfNonNull(results_list, keys) ==
    LET Value(r) == IF \E key \in keys : key \in DOMAIN r
                    THEN r[CHOOSE key \in keys : key \in DOMAIN r]
                    ELSE Null
        Has(r)   == Value(r) # Null
        kept     == SelectSeq(results_list, Has)
    IN  IF kept = <<>> THEN Null
        ELSE Some(SumOf(DOMAIN kept, [ i \in DOMAIN kept |-> Value(kept[i])[1] ])
                      \div Len(kept))

\* C34: evaluate_all_incidents returns, for Precision@1, Precision@3, MRR
\* and time-to-detect, the mean over the replay results whose value is not
\* None, for every mixture of replay results, those of incidents whose
\* replay detected no anomalies included.
C34_MeansOverNonNull ==
    (ev_return # NotEvaluated /\ ev_results # <<>>) =>
        /\ ev_return.status = "returned"
        /\ ev_return.value.precision_at_1
              = MeanOfNonNull(ev_results, {"precision_at_1"})
        /\ ev_return.value.precision_at_3
              = MeanOfNonNull(ev_results, {"precision_at_3"})
        /\ ev_return.value.mrr = MeanOfNonNull(ev_results, {"mrr"})
        /\ ev_return.value.avg_time_to_detect_minutes
              = MeanOfNonNull(ev_results,
                              {"time_to_detect_minutes", "time_to_detect"})

----------------------------------------------------------------------------
(* Frame of group_and_create_incidents, checked under SpecWorker           *)

\* C35: a grouping run never modifies a persisted incident or its links:
\* the rows of table incidents stay as inserted, no link is removed, and
\* every new link is to an incident the same run inserted.
C35_PersistedIncidentsFrozen ==
    [][ /\ Len(incidents') >= Len(incidents)
        /\ \A n \in DOMAIN incidents : incidents'[n] = incidents[n]
        /\ incident_anomalies \subseteq incident_anomalies'
        /\ \A link \in incident_anomalies' \ incident_anomalies :
              /\ \A n \in DOMAIN incidents : incidents[n].id # link[1]
              /\ \E n \in DOMAIN incidents' : incidents'[n].id = link[1] ]_vars

\* an incident was inserted for an anomaly that starts within gap_minutes of
\* the end of a persisted incident of the same service
C35_Witness ==
    \E m \in DOMAIN incidents : \E n \in DOMAIN incidents :
        /\ m < n
        /\ incidents[n].title = incidents[m].title
        /\ incidents[n].start_ts - incidents[m].end_ts <= gap_minutes * Minute
        /\ incidents[n].start_ts >= incidents[m].start_ts
        /\ incidents[m].end_ts >= incidents[m].start_ts

----------------------------------------------------------------------------
(* group_anomalies as a partition of its input, checked under SpecGroup    *)

\* the positions at which the incident lists the anomaly id
ListedAt(inc, id) ==
    { k \in DOMAIN inc.anomaly_ids : inc.anomaly_ids[k] = id }

\* C36: group_anomalies partitions its input: every input anomaly id is in
\* the anomaly_ids of exactly one returned incident, once; the incidents
\* come in ascending start_ts order; the start_ts of each is the least
\* start_ts of its members.
C36_Partition ==
    g_pc = "done" =>
        /\ \A i \in DOMAIN g_input :
              /\ Cardinality({ n \in DOMAIN g_result :
                                 ListedAt(g_result[n], g_input[i].id) # {} }) = 1
              /\ \A n \in DOMAIN g_result :
                    Cardinality(ListedAt(g_result[n], g_input[i].id)) <= 1
        /\ \A n \in DOMAIN g_result :
              /\ g_result[n].anomaly_ids # <<>>
              /\ \A k \in DOMAIN g_result[n].anomaly_ids :
                    \E i \in DOMAIN g_input :
                        g_input[i].id = g_result[n].anomaly_ids[k]
        /\ \A n \in 1..(Len(g_result) - 1) :
              g_result[n].start_ts <= g_result[n + 1].start_ts
        /\ \A n \in DOMAIN g_result :
              \E k \in DOMAIN g_result[n].anomaly_ids :
                  /\ GrpById(g_result[n].anomaly_ids[k]).start_ts
                        = g_result[n].start_ts
                  /\ \A j \in DOMAIN g_result[n].anomaly_ids :
                        g_result[n].start_ts
                            <= GrpById(g_result[n].anomaly_ids[j]).start_ts

\* three anomalies handed in latest first came back as two incidents, one
\* of them with two members
C36_Witness ==
    /\ g_pc = "done"
    /\ Len(g_input) = 3
    /\ g_input[1].start_ts > g_input[2].start_ts
    /\ g_input[2].start_ts > g_input[3].start_ts
    /\ Len(g_result) = 2
    /\ \E n \in DOMAIN g_result : Len(g_result[n].anomaly_ids) = 2

----------------------------------------------------------------------------
(* Specification SpecUnlinked: RCA requests for an incident that has no    *)
(* linked anomaly                                                          *)

\* the stored inputs with the links of the second incident missing
UnlinkedWorlds ==
    { [world EXCEPT !.incidents[2].services = {}] :
        world \in {StoredQuiet, StoredRich} }

InitUnlinked ==
    /\ DetIdle
    /\ GrpIdle
    /\ WrkIdle
    /\ RkIdle
    /\ LabIdle
    /\ ActIdle
    /\ RpIdle
    /\ RtIdle
    /\ EvIdle
    /\ stored \in UnlinkedWorlds
    /\ rca_clock = T2 + Day
    /\ rca_queue = [ i \in DOMAIN stored.incidents |->
                       rca_message(stored, i, "grouper") ]
    /\ rca_pc = "idle"
    /\ rca_run = NoRun
    /\ rca_ranked = <<>>
    /\ rca_pos = 1
    /\ suspects = {}
    /\ uuid_next = 1
    /\ rca_done = <<>>
    /\ reruns = 0

NextUnlinked ==
    \/ \E i \in DOMAIN stored.incidents : RerunRca(i)
    \/ RcaRank
    \/ RcaDelete
    \/ RcaInsert
    \/ RcaReturn
    \/ ClockTick

SpecUnlinked == InitUnlinked /\ [][NextUnlinked]_vars

\* C37: a run for an incident without linked anomalies, hence without
\* affected services, that has no candidate ends where it found none: no
\* suspect row is deleted or inserted and the run does not reach the point
\* after _store_suspects where suspects_generated is logged.
C37_NoCandidatesNoWrites ==
    [][ ( /\ rca_pc = "idle"
          /\ rca_queue # <<>>
          /\ rca_queue' = Tail(rca_queue)
          /\ AffectedBy(Head(rca_queue)) = {}
          /\ ExpectedCandidates(Head(rca_queue)) = {} )
        => /\ rca_pc' = "idle"
           /\ suspects' = suspects
           /\ uuid_next' = uuid_next
           /\ rca_done' = rca_done ]_vars

\* the suspects of the first incident are stored, the request of the
\* incident without links was consumed, and nothing was stored for it
C37_Witness ==
    /\ rca_pc = "idle"
    /\ rca_queue = <<>>
    /\ stored.incidents[2].services = {}
    /\ suspects_of(1) # {}
    /\ suspects_of(2) = {}
    /\ \A k \in DOMAIN rca_done : rca_done[k].run.incident_id = 1

----------------------------------------------------------------------------
(* How many and which events get_events returns, checked under             *)
(* SpecActivity                                                            *)

\* the eligible events of the store that the reply holds
Returned(store, args, clock, reply) ==
    { r \in Eligible(store, args, clock) :
        \E i \in DOMAIN reply.events :
            /\ r.member[1] = reply.events[i].ts
            /\ r.member[2] = reply.events[i].type
            /\ r.member[3] = reply.events[i].service }

\* C39: get_events returns min(limit, M) events, M the number of stored
\* events in [since, now] that match the filters, and when M > limit no
\* matching event left out is newer, by score and by ts, than one returned.
C39_NewestLimit ==
    \A args \in ReadArgs :
        \A reply \in get_events(act_events, args, act_clock) :
            reply.status = 200 =>
                LET matching == Eligible(act_events, args, act_clock)
                    returned == Returned(act_events, args, act_clock, reply)
                IN  /\ Len(reply.events)
                          = Min2(args.limit, Cardinality(matching))
                    /\ Cardinality(matching) > args.limit =>
                          \A r \in matching \ returned : \A e \in returned :
                              \/ e.score >= r.score
                              \/ fromisoformat(e.member[1])
                                     >= fromisoformat(r.member[1])

====
